---- MODULE Spec2Model ----
(***************************************************************************)
(* A model of the ToupCam CCD driver (indi_toupcam.cpp): the exposure and  *)
(* image-delivery logic, the video-format / geometry logic and the ST4     *)
(* guide-pulse timers; and of the move logic of two focuser drivers, the    *)
(* Microtouch (microtouch.cpp) and the Avalon StarGo focuser.               *)
(*                                                                         *)
(* Time is in milliseconds.  The driver's main thread runs the client      *)
(* operations, the poll timer (TimerHit) and the one-shot IEAddTimer       *)
(* callbacks; the SDK thread runs eventPullCallBack.  The two threads      *)
(* share InExposure and m_SendImage without a lock, so the event handler   *)
(* is modelled in the steps between its reads of m_SendImage.              *)
(***************************************************************************)
EXTENDS Integers, Sequences, FiniteSets, Bags, TLC

VARIABLES
    \* ---- exposure state of the driver
    InExposure,        \* TOUPCAM::InExposure
    m_SendImage,       \* TOUPCAM::m_SendImage ("send-pending")
    ExposureRequest,   \* requested duration, ms
    ExposureEnd,       \* computed deadline, ms
    \* ---- the event loop
    now,               \* current time, ms
    nextPoll,          \* due time of the poll timer armed by SetTimer(POLLMS)
    sendTimers,        \* bag of due times of the armed sendImageCB timers
    \* ---- the camera hardware / SDK
    hwTriggerMode,     \* TOUPCAM_OPTION_TRIGGER: TRUE = software trigger, FALSE = video
    hwExposing,        \* bag of completion times of the triggered hardware exposures
    hwReady,           \* image-ready events queued for the SDK callback
    streaming,         \* Streamer->isStreaming()
    \* ---- eventPullCallBack in progress on the SDK thread
    evPc,              \* "idle" | "pull" | "deliver"
    evTmp,             \* TRUE when `buffer` is the malloc'ed temporary buffer
    \* ---- observations
    expNo,             \* successful StartExposure calls so far
    published,         \* ExposureComplete calls since the last successful StartExposure
    failures,          \* setExposureFailed was called since the last successful StartExposure
    aborted,           \* AbortExposure since the last successful StartExposure:
                       \* "no", "refused" (the hardware refused it), "done"
    startedIdle,       \* the last successful StartExposure found no exposure in
                       \* progress, no image to send and no event being handled
    last,              \* the last operation and what it did
    \* ---- video format and geometry
    camera,            \* the camera model: raw support, max bit depth, mono sensor, raw depth
    currentVideoFormat,
    m_Channels,
    m_BitsPerPixel,
    m_RawBitsPerPixel,
    ccd,               \* PrimaryCCD: resolution, sub-frame, binning, BPP, NAxis, buffer size
    streamer,          \* Streamer: output size and pixel format
    bayerCap,          \* CCD_HAS_BAYER capability bit
    resIndex,          \* the ON switch of ResolutionSP
    hw,                \* hardware: options raw, bitdepth, pixfmt, rgb; roi, the last roi
                       \* asked for, bin, esize, capture running
    \* ---- pixel data of an RGB delivery
    tmpBuffer,         \* the bytes the pull wrote to the temporary buffer, from offset 0
    frameBuffer,       \* the bytes the de-interleave wrote to PrimaryCCD's frame buffer
    touched,           \* the offsets the last de-interleave read and wrote
    \* ---- guide pulses
    NStimerID, WEtimerID,
    NSDir, WEDir,
    NSPulseEnd, WEPulseEnd,
    guideTimers,       \* armed guide timers: records [id, axis, at]
    guideDone,         \* GuideComplete calls per axis, made by the last operation
    pulses,            \* guide pulse commands so far
    \* ---- the Microtouch focuser
    FocusAbsPosNP,     \* absolute position property: state and value
    FocusRelPosNP,     \* relative position property: state and value
    FocusTimerNP,      \* timed-move property: state
    focusMoveStart,    \* Microtouch::focusMoveStart, ms
    focusMoveRequest,  \* Microtouch::focusMoveRequest, a float: mant * 2^(exp - 23) seconds
    targetPos,         \* Microtouch::targetPos
    lastPos,           \* Microtouch::lastPos
    motor,             \* the focuser device: position, target, moving
    focusPoll,         \* due time of the poll timer armed by SetTimer
    moves,             \* client commands to the focuser so far
    \* ---- the StarGo focuser
    stargoWire         \* the speed commands handed to sendQuery so far

captureVars == <<InExposure, m_SendImage, ExposureRequest, ExposureEnd, nextPoll,
                 sendTimers, hwTriggerMode, hwExposing, hwReady, streaming, evPc,
                 evTmp, expNo, published, failures, aborted, startedIdle>>
pixelVars   == <<tmpBuffer, frameBuffer, touched>>
formatVars  == <<camera, currentVideoFormat, m_Channels, m_BitsPerPixel,
                 m_RawBitsPerPixel, ccd, streamer, bayerCap, resIndex, hw, pixelVars>>
guideVars   == <<NStimerID, WEtimerID, NSDir, WEDir, NSPulseEnd, WEPulseEnd,
                 guideTimers, guideDone, pulses>>
microtouchVars == <<FocusAbsPosNP, FocusRelPosNP, FocusTimerNP, focusMoveStart,
                    focusMoveRequest, targetPos, lastPos, motor, focusPoll, moves>>
focuserVars == <<microtouchVars, stargoWire>>
vars == <<captureVars, formatVars, guideVars, focuserVars, now, last>>

(***************************************************************************)
(* Bounds of the model.                                                    *)
(***************************************************************************)
MaxExposures == 2      \* successful StartExposure calls in a behaviour
MaxHwReady   == 2      \* image-ready events the SDK queues
MaxTime      == 3000   \* the clock stops advancing here
MaxPulses    == 3      \* guide pulse commands in a behaviour
MaxPlane     == 24     \* pixels per plane of an image whose bytes are followed
MaxPublished == 2      \* still images published after one StartExposure
MaxMoves      == 2     \* client commands to the Microtouch focuser in a behaviour
MaxSpeedCalls == 2     \* SetFocuserSpeed calls in a behaviour

(***************************************************************************)
(* Program constants.                                                      *)
(***************************************************************************)
POLLMS       == 1000   \* the driver's polling period
WakeLeadMs   == 50     \* StartExposure wakes up this much before the deadline
GuideWaitMs  == 50     \* pulses shorter than this are waited for

\* Exposure durations a client asks for, ms.
Durations == {0, 500, 2000}
\* Time left on the poll timer when the observation begins.
PollPhases == {300, POLLMS}

Min(S) == CHOOSE x \in S : \A y \in S : x <= y

\* What `last` records: the operation, its result, the hardware calls it made.
Did(op, rc, calls) == [op |-> op, rc |-> rc, hw |-> calls]

(***************************************************************************)
(* Exposure                                                                *)
(***************************************************************************)

\* A wake-up delay without the lead: the exposure's duration.
WakeDelayNoLead(ms) == ms

\* The delay of the wake-up timer StartExposure computes from the duration.
WakeDelay(ms) ==
    LET timeMS == ms - WakeLeadMs
    IN  IF timeMS < 0 THEN timeMS + WakeLeadMs ELSE timeMS

\* Does StartExposure arm the wake-up timer?
ArmsWakeUp(ms) == WakeDelay(ms) < POLLMS

\* Toupcam_Trigger(h, 1): the hardware exposes for the exposure time and then
\* queues one image-ready event.
HwTrigger(ms) ==
    IF ms = 0
    THEN /\ hwReady' = hwReady + 1
         /\ UNCHANGED hwExposing
    ELSE /\ hwExposing' = hwExposing (+) SetToBag({now + ms})
         /\ UNCHANGED hwReady

\* failAt: 0 = the hardware accepts every command, k = it refuses the k-th of
\* put_ExpoTime, put_Option(TRIGGER, 1), Trigger(1).
StartExposureCalls == <<"ExpoTime", "TriggerMode1", "Trigger1">>

StartExposure(d, failAt) ==
    /\ expNo < MaxExposures
    /\ BagCardinality(hwExposing) + hwReady < MaxHwReady
    /\ ExposureRequest' = d
    /\ IF failAt # 0
       THEN /\ hwTriggerMode' = IF failAt = 3 THEN TRUE ELSE hwTriggerMode
            /\ last' = Did("StartExposure", "false", SubSeq(StartExposureCalls, 1, failAt))
            /\ UNCHANGED <<InExposure, m_SendImage, ExposureEnd, nextPoll, sendTimers,
                           hwExposing, hwReady, streaming, evPc, evTmp, expNo,
                           published, failures, aborted, startedIdle>>
       ELSE /\ hwTriggerMode' = TRUE
            /\ HwTrigger(d)
            /\ ExposureEnd' = now + d
            /\ InExposure' = TRUE
            /\ sendTimers' = IF ArmsWakeUp(d)
                             THEN sendTimers (+) SetToBag({now + WakeDelay(d)})
                             ELSE sendTimers
            /\ expNo' = expNo + 1
            /\ published' = 0
            /\ failures' = FALSE
            /\ aborted' = "no"
            /\ startedIdle' = (~InExposure /\ ~m_SendImage /\ evPc = "idle")
            /\ last' = Did("StartExposure", "true", StartExposureCalls)
            /\ UNCHANGED <<m_SendImage, nextPoll, streaming, evPc, evTmp>>
    /\ UNCHANGED <<formatVars, guideVars, now, focuserVars>>

\* Toupcam_Trigger(h, 0): exposures still in progress are cancelled; an event
\* already queued for the callback stays queued.
AbortExposure(hwOk) ==
    /\ InExposure' = FALSE
    /\ hwExposing' = IF hwOk THEN EmptyBag ELSE hwExposing
    /\ aborted' = IF hwOk \/ aborted = "done" THEN "done" ELSE "refused"
    /\ UNCHANGED startedIdle
    /\ last' = Did("AbortExposure", IF hwOk THEN "true" ELSE "false", <<"Trigger0">>)
    /\ UNCHANGED <<m_SendImage, ExposureRequest, ExposureEnd, nextPoll, sendTimers,
                   hwTriggerMode, hwReady, streaming, evPc, evTmp, expNo, published,
                   failures>>
    /\ UNCHANGED <<formatVars, guideVars, now, focuserVars>>

\* The one-shot timer callback armed by StartExposure and by TimerHit.
sendImageCallBack(t) ==
    /\ BagIn(t, sendTimers)
    /\ t <= now
    /\ sendTimers' = sendTimers (-) SetToBag({t})
    /\ InExposure' = FALSE
    /\ m_SendImage' = TRUE
    /\ last' = Did("sendImageCallBack", "set", <<>>)
    /\ UNCHANGED <<ExposureRequest, ExposureEnd, nextPoll, hwTriggerMode, hwExposing,
                   hwReady, streaming, evPc, evTmp, expNo, published, failures, aborted,
                   startedIdle>>
    /\ UNCHANGED <<formatVars, guideVars, now, focuserVars>>

\* The poll timer.
TimerHit ==
    /\ nextPoll <= now
    /\ LET msecs == ExposureEnd - now
       IN  IF ~InExposure
           THEN /\ last' = Did("TimerHit", "idle", <<>>)
                /\ UNCHANGED <<InExposure, m_SendImage, sendTimers>>
           ELSE IF msecs <= 0
           THEN /\ InExposure' = FALSE
                /\ m_SendImage' = TRUE
                /\ last' = Did("TimerHit", "set", <<>>)
                /\ UNCHANGED sendTimers
           ELSE IF msecs < POLLMS
           THEN /\ sendTimers' = sendTimers (+) SetToBag({now + msecs})
                /\ last' = Did("TimerHit", "armed", <<>>)
                /\ UNCHANGED <<InExposure, m_SendImage>>
           ELSE /\ last' = Did("TimerHit", "wait", <<>>)
                /\ UNCHANGED <<InExposure, m_SendImage, sendTimers>>
    /\ nextPoll' = now + POLLMS
    /\ UNCHANGED <<ExposureRequest, ExposureEnd, hwTriggerMode, hwExposing, hwReady,
                   streaming, evPc, evTmp, expNo, published, failures, aborted, startedIdle>>
    /\ UNCHANGED <<formatVars, guideVars, now, focuserVars>>

(***************************************************************************)
(* Streaming                                                               *)
(***************************************************************************)
StartStreaming(hwOk) ==
    /\ ~streaming
    /\ IF hwOk
       THEN /\ hwTriggerMode' = FALSE
            /\ streaming' = TRUE
            /\ last' = Did("StartStreaming", "true", <<"TriggerMode0">>)
       ELSE /\ last' = Did("StartStreaming", "false", <<"TriggerMode0">>)
            /\ UNCHANGED <<hwTriggerMode, streaming>>
    /\ UNCHANGED <<InExposure, m_SendImage, ExposureRequest, ExposureEnd, nextPoll,
                   sendTimers, hwExposing, hwReady, evPc, evTmp, expNo, published,
                   failures, aborted, startedIdle>>
    /\ UNCHANGED <<formatVars, guideVars, now, focuserVars>>

StopStreaming(hwOk) ==
    /\ streaming
    /\ streaming' = FALSE
    /\ hwTriggerMode' = IF hwOk THEN TRUE ELSE hwTriggerMode
    /\ last' = Did("StopStreaming", IF hwOk THEN "true" ELSE "false", <<"TriggerMode1">>)
    /\ UNCHANGED <<InExposure, m_SendImage, ExposureRequest, ExposureEnd, nextPoll,
                   sendTimers, hwExposing, hwReady, evPc, evTmp, expNo, published,
                   failures, aborted, startedIdle>>
    /\ UNCHANGED <<formatVars, guideVars, now, focuserVars>>

\* In video mode the hardware produces frames on its own.
HwVideoFrame ==
    /\ ~hwTriggerMode
    /\ BagCardinality(hwExposing) + hwReady < MaxHwReady
    /\ hwReady' = hwReady + 1
    /\ last' = Did("HwVideoFrame", "queued", <<>>)
    /\ UNCHANGED <<InExposure, m_SendImage, ExposureRequest, ExposureEnd, nextPoll,
                   sendTimers, hwTriggerMode, hwExposing, streaming, evPc, evTmp,
                   expNo, published, failures, aborted, startedIdle>>
    /\ UNCHANGED <<formatVars, guideVars, now, focuserVars>>

(***************************************************************************)
(* eventPullCallBack(TOUPCAM_EVENT_IMAGE), on the SDK thread               *)
(***************************************************************************)

\* The handler without its test of m_SendImage.
SendPendingIgnored == TRUE

\* The handler's test before ExposureComplete.
SendPending == m_SendImage

\* A handler that never takes the streaming branch.
IsStreamingNever == FALSE

\* Streamer->isStreaming(), the handler's first test.
IsStreaming == streaming

\* Entry: the streaming branch pulls into the frame buffer, hands it to
\* Streamer->newFrame and is done; otherwise `buffer` is chosen.
EventImageBegin(pullOk) ==
    /\ evPc = "idle"
    /\ hwReady > 0
    /\ hwReady' = hwReady - 1
    /\ IF IsStreaming
       THEN /\ last' = IF pullOk
                       THEN Did("EventImage", "streamed", <<"PullImage", "newFrame">>)
                       ELSE Did("EventImage", "streamPullFailed", <<"PullImage">>)
            /\ UNCHANGED <<evPc, evTmp>>
       ELSE /\ evTmp' = (m_SendImage /\ currentVideoFormat = "RGB")
            /\ evPc' = "pull"
            /\ last' = Did("EventImage", "begin", <<>>)
    /\ UNCHANGED <<InExposure, m_SendImage, ExposureRequest, ExposureEnd, nextPoll,
                   sendTimers, hwTriggerMode, hwExposing, streaming, expNo, published,
                   failures, aborted, startedIdle>>
    /\ UNCHANGED <<formatVars, guideVars, now, focuserVars>>

\* Toupcam_PullImageV2 into `buffer`.
EventImagePull(pullOk) ==
    /\ evPc = "pull"
    /\ IF pullOk
       THEN /\ evPc' = "deliver"
            /\ last' = Did("EventImage", "pulled", <<"PullImage">>)
            /\ UNCHANGED <<failures, evTmp>>
       ELSE /\ failures' = TRUE
            /\ evPc' = "idle"
            /\ evTmp' = FALSE
            /\ last' = Did("EventImage",
                            IF (m_SendImage /\ currentVideoFormat = "RGB") = evTmp
                            THEN "pullFailed" ELSE "pullFailedFreeLive",
                            <<"PullImage">>)
    /\ UNCHANGED <<InExposure, m_SendImage, ExposureRequest, ExposureEnd, nextPoll,
                   sendTimers, hwTriggerMode, hwExposing, hwReady, streaming, expNo,
                   published, aborted, startedIdle>>
    /\ UNCHANGED <<formatVars, guideVars, now, focuserVars>>

\* After a successful pull: deliver when send-pending.
EventImageDeliver ==
    /\ evPc = "deliver"
    /\ evPc' = "idle"
    /\ evTmp' = FALSE
    /\ IF SendPending
       THEN /\ published' = published + 1
            /\ m_SendImage' = FALSE
            /\ last' = Did("EventImage",
                            IF currentVideoFormat = "RGB" /\ ~evTmp
                            THEN "publishedFreeLive" ELSE "published", <<>>)
       ELSE /\ last' = Did("EventImage", "discarded", <<>>)
            /\ UNCHANGED <<published, m_SendImage>>
    /\ UNCHANGED <<InExposure, ExposureRequest, ExposureEnd, nextPoll, sendTimers,
                   hwTriggerMode, hwExposing, hwReady, streaming, expNo, failures,
                   aborted, startedIdle>>
    /\ UNCHANGED <<formatVars, guideVars, now, focuserVars>>

(***************************************************************************)
(* eventPullCallBack: the other events                                     *)
(***************************************************************************)

\* The event codes the SDK delivers; UNKNOWN stands for any code the switch
\* has no case for.
HardwareEvents ==
    {"EXPOSURE", "TEMPTINT", "IMAGE", "STILLIMAGE", "WBGAIN", "TRIGGERFAIL", "BLACK",
     "FFC", "DFC", "ERROR", "DISCONNECTED", "FACTORY", "UNKNOWN"}

\* A switch in which every event but IMAGE runs the still-image case.
EventCaseFallThrough(event) == IF event = "IMAGE" THEN "IMAGE" ELSE "STILLIMAGE"

\* The case of the switch an event runs: IMAGE and STILLIMAGE have a body,
\* every other case, and the default, is a break.
EventCase(event) == IF event \in {"IMAGE", "STILLIMAGE"} THEN event ELSE "break"

\* case TOUPCAM_EVENT_STILLIMAGE: pull into the frame buffer; on success clear
\* InExposure and call ExposureComplete, on failure setExposureFailed.
EventStillImage(pullOk) ==
    /\ evPc = "idle"
    /\ published < MaxPublished
    /\ IF pullOk
       THEN /\ InExposure' = FALSE
            /\ published' = published + 1
            /\ last' = Did("EventStillImage", "published", <<"PullStillImage">>)
            /\ UNCHANGED failures
       ELSE /\ failures' = TRUE
            /\ last' = Did("EventStillImage", "pullFailed", <<"PullStillImage">>)
            /\ UNCHANGED <<InExposure, published>>
    /\ UNCHANGED <<m_SendImage, ExposureRequest, ExposureEnd, nextPoll, sendTimers,
                   hwTriggerMode, hwExposing, hwReady, streaming, evPc, evTmp, expNo,
                   aborted, startedIdle>>
    /\ UNCHANGED <<formatVars, guideVars, now, focuserVars>>

\* A case that is a break.
EventIgnored(event) ==
    /\ evPc = "idle"
    /\ last' = Did("eventPullCallBack", "break", <<event>>)
    /\ UNCHANGED <<captureVars, formatVars, guideVars, now, focuserVars>>

\* The switch of eventPullCallBack.
eventPullCallBack(event, pullOk) ==
    CASE EventCase(event) = "IMAGE"      -> EventImageBegin(pullOk)
      [] EventCase(event) = "STILLIMAGE" -> EventStillImage(pullOk)
      [] OTHER                           -> EventIgnored(event)

(***************************************************************************)
(* Video format and geometry                                               *)
(***************************************************************************)

\* The sensor resolutions the camera model lists (model->res[]).
Resolutions == << [w |-> 106, h |-> 58], [w |-> 52, h |-> 28] >>

\* Camera models: raw support, maximum bit depth, monochrome sensor, raw bit depth.
Cameras ==
    { [raw |-> TRUE,  maxBits |-> 16, mono |-> FALSE, rawDepth |-> 12],
      [raw |-> FALSE, maxBits |-> 8,  mono |-> TRUE,  rawDepth |-> 8] }

VideoFormats == {"MONO_8", "MONO_16", "RGB", "RAW"}

\* Frames a client asks for: x, y, w, h.
FrameRequests ==
    { <<5, 7, 101, 51>>, <<0, 0, 106, 58>>, <<0, 0, 52, 28>>, <<1, 1, 107, 59>>,
      <<0, 0, 108, 20>>, <<0, 0, 20, 60>> }

BinFactors == {1, 2}

\* C++ remainder: the result has the sign of the dividend.
CRem(a, b) == IF a >= 0 THEN a % b ELSE -((-a) % b)

\* No rounding.
EvenKeep(v) == v

\* Rounding to even the wrong way.
EvenUp(v) == v + CRem(v, 2)

\* "Make sure all are even"
EvenDown(v) == v - CRem(v, 2)

\* The frame buffer size allocateFrameBuffer sets for a format.
AllocSize(fmt, xres, yres, bits) ==
    CASE fmt = "MONO_8"  -> xres * yres
      [] fmt = "MONO_16" -> xres * yres * 2
      [] fmt = "RGB"     -> xres * yres * 3
      [] fmt = "RAW"     -> (xres * yres * bits) \div 8

\* The bits per pixel allocateFrameBuffer hands to PrimaryCCD.setBPP.
AllocBPP(fmt, bits) == IF fmt = "RAW" THEN bits ELSE 8

\* The Bayer pixel format getBayerString stores in m_CameraPixelFormat.
BayerFormat == "INDI_BAYER_RGGB"

\* PrimaryCCD after allocateFrameBuffer.
AllocCcd(c, fmt, bits) ==
    [c EXCEPT !.FrameBufferSize = AllocSize(fmt, c.XRes, c.YRes, bits),
              !.BPP = AllocBPP(fmt, bits),
              !.NAxis = IF fmt = "RGB" THEN 3 ELSE 2]

\* Streamer after allocateFrameBuffer.
AllocStreamer(c, fmt, bits) ==
    [w |-> c.XRes, h |-> c.YRes,
     fmt |-> CASE fmt = "RGB" -> "INDI_RGB"
               [] fmt = "RAW" -> BayerFormat
               [] OTHER -> "INDI_MONO",
     depth |-> CASE fmt = "MONO_16" -> 16
                 [] fmt = "RAW" -> bits
                 [] OTHER -> 8]

\* The frame buffer size UpdateCCDFrame computes.
FrameSize(w, h, bpp, channels) == ((w * h * bpp) \div 8) * channels

\* UpdateCCDFrame without its tests of the width and the height.
FrameUpdateUnchecked(c, s, h, x0, y0, w0, h0, roiOk) ==
    LET x  == EvenDown(x0)
        y  == EvenDown(y0)
        w  == EvenDown(w0)
        hh == EvenDown(h0)
    IN  IF ~roiOk
        THEN [rc |-> "roiRefused", ccd |-> c, streamer |-> s,
              hw |-> [h EXCEPT !.roiAsked = <<x, y, w, hh>>], calls |-> <<"Roi">>]
        ELSE [rc |-> "true",
              ccd |-> [c EXCEPT !.SubX = x, !.SubY = y, !.SubW = w, !.SubH = hh,
                                !.FrameBufferSize = FrameSize(w, hh, c.BPP, m_Channels)],
              streamer |-> [s EXCEPT !.w = w \div c.BinX, !.h = hh \div c.BinY],
              hw |-> [h EXCEPT !.roi = <<x, y, w, hh>>, !.roiAsked = <<x, y, w, hh>>],
              calls |-> <<"Roi">>]

\* UpdateCCDFrame on PrimaryCCD c, Streamer s and the hardware h: what it
\* returns and leaves behind.
FrameUpdate(c, s, h, x0, y0, w0, h0, roiOk) ==
    LET x  == EvenDown(x0)
        y  == EvenDown(y0)
        w  == EvenDown(w0)
        hh == EvenDown(h0)
    IN  IF w > c.XRes
        THEN [rc |-> "invalidWidth", ccd |-> c, streamer |-> s, hw |-> h, calls |-> <<>>]
        ELSE IF hh > c.YRes
        THEN [rc |-> "invalidHeight", ccd |-> c, streamer |-> s, hw |-> h, calls |-> <<>>]
        ELSE IF ~roiOk
        THEN [rc |-> "roiRefused", ccd |-> c, streamer |-> s,
              hw |-> [h EXCEPT !.roiAsked = <<x, y, w, hh>>], calls |-> <<"Roi">>]
        ELSE [rc |-> "true",
              ccd |-> [c EXCEPT !.SubX = x, !.SubY = y, !.SubW = w, !.SubH = hh,
                                !.FrameBufferSize = FrameSize(w, hh, c.BPP, m_Channels)],
              streamer |-> [s EXCEPT !.w = w \div c.BinX, !.h = hh \div c.BinY],
              hw |-> [h EXCEPT !.roi = <<x, y, w, hh>>, !.roiAsked = <<x, y, w, hh>>],
              calls |-> <<"Roi">>]

UpdateCCDFrame(x, y, w, h, roiOk) ==
    LET r == FrameUpdate(ccd, streamer, hw, x, y, w, h, roiOk)
    IN  /\ ccd' = r.ccd
        /\ streamer' = r.streamer
        /\ hw' = r.hw
        /\ last' = Did("UpdateCCDFrame", r.rc, r.calls)
        /\ UNCHANGED <<camera, currentVideoFormat, m_Channels, m_BitsPerPixel,
                       m_RawBitsPerPixel, bayerCap, resIndex>>
        /\ UNCHANGED <<captureVars, guideVars, pixelVars, now, focuserVars>>

\* The factors UpdateCCDBin stores with PrimaryCCD.setBin.
StoredBin(binx, biny) == <<binx, binx>>

UpdateCCDBin(binx, biny, binOk, roiOk) ==
    /\ IF ~binOk
       THEN /\ last' = Did("UpdateCCDBin", "binRefused", <<"Binning">>)
            /\ UNCHANGED <<ccd, streamer, hw>>
       ELSE LET c == [ccd EXCEPT !.BinX = StoredBin(binx, biny)[1],
                                 !.BinY = StoredBin(binx, biny)[2]]
                r == FrameUpdate(c, streamer, [hw EXCEPT !.bin = binx],
                                 c.SubX, c.SubY, c.SubW, c.SubH, roiOk)
            IN  /\ ccd' = r.ccd
                /\ streamer' = r.streamer
                /\ hw' = r.hw
                /\ last' = Did("UpdateCCDBin", r.rc, <<"Binning">> \o r.calls)
    /\ UNCHANGED <<camera, currentVideoFormat, m_Channels, m_BitsPerPixel,
                   m_RawBitsPerPixel, bayerCap, resIndex>>
    /\ UNCHANGED <<captureVars, guideVars, pixelVars, now, focuserVars>>

\* A format change that does not look at the Streamer.
StreamerBusyIgnored == FALSE

\* Streamer->isBusy(), the test that guards a format or resolution change.
StreamerBusy == streaming

\* The value written to TOUPCAM_OPTION_RAW for a target format.
RawOption(target) == 1

\* The value written to TOUPCAM_OPTION_RGB for a target format.
RgbMode(target) ==
    CASE target = "MONO_8"  -> 3
      [] target = "MONO_16" -> 4
      [] OTHER -> 0

\* Option writes that begin with the bit depth.
FormatStepsDepthFirst(target) ==
    << [opt |-> "bitdepth", val |-> 1],
       [opt |-> "raw", val |-> RawOption(target)],
       [opt |-> "pixfmt", val |-> "RAW12"] >>
    \o (IF target # "RAW" THEN << [opt |-> "rgb", val |-> RgbMode(target)] >> ELSE << >>)

\* The option writes of a format change, in order.
FormatSteps(target) ==
    << [opt |-> "raw", val |-> RawOption(target)],
       [opt |-> "bitdepth", val |-> 1],
       [opt |-> "pixfmt", val |-> "RAW12"] >>
    \o (IF target # "RAW" THEN << [opt |-> "rgb", val |-> RgbMode(target)] >> ELSE << >>)

\* A format change that undoes the accepted option writes when a later one
\* is refused.
ApplyWithRollback(h, steps, n) ==
    IF n < Len(steps) THEN h
    ELSE [f \in DOMAIN h |->
            IF \E i \in 1..n : steps[i].opt = f
            THEN steps[CHOOSE i \in 1..n : steps[i].opt = f].val
            ELSE h[f]]

\* The hardware after the first n option writes of steps were accepted.
RECURSIVE ApplySteps(_, _, _)
ApplySteps(h, steps, n) ==
    IF n = 0 THEN h
    ELSE LET g == ApplySteps(h, steps, n - 1)
         IN  [g EXCEPT ![steps[n].opt] = steps[n].val]

RECURSIVE StepNames(_, _)
StepNames(steps, n) ==
    IF n = 0 THEN << >> ELSE StepNames(steps, n - 1) \o << steps[n].opt >>

\* A format change that takes every format as single-channel.
FormatChannelsMono(target) == 1

\* m_Channels after a format change.
FormatChannels(target) == IF target = "RGB" THEN 3 ELSE 1

\* ISNewSwitch(VideoFormatSP).  failAt: 0 = every option write is accepted,
\* k = the k-th is refused.
SetVideoFormat(target, failAt) ==
    /\ failAt <= Len(FormatSteps(target))
    /\ IF StreamerBusy
       THEN /\ last' = Did("SetVideoFormat", "alertStreaming", << >>)
            /\ UNCHANGED <<currentVideoFormat, m_Channels, m_BitsPerPixel,
                           m_RawBitsPerPixel, ccd, streamer, bayerCap, hw>>
       ELSE IF \/ (camera.maxBits = 8 /\ target = "MONO_16")
               \/ (target = "RAW" /\ ~camera.raw)
               \/ (target = "RGB" /\ camera.mono)
       THEN /\ last' = Did("SetVideoFormat", "alertUnsupported", << >>)
            /\ UNCHANGED <<currentVideoFormat, m_Channels, m_BitsPerPixel,
                           m_RawBitsPerPixel, ccd, streamer, bayerCap, hw>>
       ELSE IF failAt # 0
       THEN /\ hw' = [ApplySteps(hw, FormatSteps(target), failAt - 1)
                        EXCEPT !.running = TRUE]
            /\ last' = Did("SetVideoFormat", "alertRefused",
                           <<"Stop">> \o StepNames(FormatSteps(target), failAt)
                                      \o <<"Start">>)
            /\ UNCHANGED <<currentVideoFormat, m_Channels, m_BitsPerPixel,
                           m_RawBitsPerPixel, ccd, streamer, bayerCap>>
       ELSE LET n    == Len(FormatSteps(target))
                rawb == IF target = "RAW" THEN camera.rawDepth ELSE m_RawBitsPerPixel
                bits == CASE target = "MONO_16" -> 16
                          [] target = "RAW" -> rawb
                          [] OTHER -> 8
            IN  /\ hw' = [ApplySteps(hw, FormatSteps(target), n) EXCEPT !.running = TRUE]
                /\ currentVideoFormat' = target
                /\ m_Channels' = FormatChannels(target)
                /\ m_BitsPerPixel' = bits
                /\ m_RawBitsPerPixel' = rawb
                /\ bayerCap' = IF target = "RAW" THEN TRUE
                               ELSE IF camera.raw THEN FALSE ELSE bayerCap
                /\ ccd' = AllocCcd(ccd, target, bits)
                /\ streamer' = AllocStreamer(ccd, target, bits)
                /\ last' = Did("SetVideoFormat", "ok",
                               <<"Stop">> \o StepNames(FormatSteps(target), n)
                                          \o <<"Start">>)
    /\ UNCHANGED <<camera, resIndex>>
    /\ UNCHANGED <<captureVars, guideVars, pixelVars, now, focuserVars>>

\* ISNewSwitch(ResolutionSP)
SetResolution(idx, sizeOk) ==
    /\ IF StreamerBusy
       THEN /\ last' = Did("SetResolution", "alertStreaming", << >>)
            /\ UNCHANGED <<ccd, streamer, resIndex, hw>>
       ELSE IF ~sizeOk
       THEN /\ last' = Did("SetResolution", "alertRefused", <<"Stop", "eSize", "Start">>)
            /\ hw' = [hw EXCEPT !.running = TRUE]
            /\ UNCHANGED <<ccd, streamer, resIndex>>
       ELSE LET c == [ccd EXCEPT !.XRes = Resolutions[idx].w, !.YRes = Resolutions[idx].h]
            IN  /\ resIndex' = idx
                /\ hw' = [hw EXCEPT !.esize = idx, !.running = TRUE]
                /\ ccd' = AllocCcd(c, currentVideoFormat, m_BitsPerPixel)
                /\ streamer' = AllocStreamer(c, currentVideoFormat, m_BitsPerPixel)
                /\ last' = Did("SetResolution", "ok", <<"Stop", "eSize", "Start">>)
    /\ UNCHANGED <<camera, currentVideoFormat, m_Channels, m_BitsPerPixel,
                   m_RawBitsPerPixel, bayerCap>>
    /\ UNCHANGED <<captureVars, guideVars, pixelVars, now, focuserVars>>

(***************************************************************************)
(* The RGB de-interleave of eventPullCallBack                              *)
(***************************************************************************)

\* Sub-frames small enough to follow every byte: x, y, w, h.
PixelFrames == { <<0, 0, 1, 1>>, <<0, 0, 4, 2>>, <<2, 0, 6, 4>> }

\* Multipliers of the byte patterns a pulled image is filled with.
PixelPatterns == {1, 7}

\* The largest byte value.
MaxByte == 255

\* A buffer nothing was written to.
NoBytes == [j \in {} |-> 0]

\* The packed image Toupcam_PullImageV2 writes: n bytes, each offset with a
\* value of its own.
PulledImage(p, n) == [j \in 0..(n - 1) |-> (p * (j + 1)) % (MaxByte + 1)]

\* A byte of a buffer; -1 stands for a byte nothing was written to.
ByteAt(buf, j) == IF j \in DOMAIN buf THEN buf[j] ELSE -1

\* Storing a byte at an offset of a buffer.
StoreAt(buf, j, v) == (j :> v) @@ buf

\* The `width` and `height` the de-interleave computes.
PlaneWidth(c)  == (c.SubW \div c.BinX) * (c.BPP \div 8)
PlaneHeight(c) == (c.SubH \div c.BinY) * (c.BPP \div 8)

\* A loop bound one pixel too far.
LoopLimitPastEnd(width, height) == width * height * 3

\* int size = width * height * 3 - 3; for an empty plane the unsigned
\* product wraps and the conversion to int gives -3.
LoopLimit(width, height) == width * height * 3 - 3

\* for (i = 0; i <= size; i += 3) { *subR++ = buffer[i]; *subG++ = buffer[i + 1];
\* *subB++ = buffer[i + 2]; } with subR, subG, subB as offsets into the image.
RECURSIVE DeinterleaveLoop(_, _, _, _)
DeinterleaveLoop(i, size, buffer, st) ==
    IF i > size THEN st
    ELSE DeinterleaveLoop(i + 3, size, buffer,
            [image  |-> StoreAt(StoreAt(StoreAt(st.image, st.subR, ByteAt(buffer, i)),
                                        st.subG, ByteAt(buffer, i + 1)),
                                st.subB, ByteAt(buffer, i + 2)),
             subR   |-> st.subR + 1,
             subG   |-> st.subG + 1,
             subB   |-> st.subB + 1,
             reads  |-> st.reads \cup {i, i + 1, i + 2},
             writes |-> st.writes \cup {st.subR, st.subG, st.subB}])

\* The RGB branch of a delivery after a pull that filled the temporary buffer
\* with pattern p: lines 2111-2131.
DeinterleaveRGB(p) ==
    /\ currentVideoFormat = "RGB"
    /\ PlaneWidth(ccd) * PlaneHeight(ccd) <= MaxPlane
    /\ LET width  == PlaneWidth(ccd)
           height == PlaneHeight(ccd)
           buffer == PulledImage(p, width * height * 3)
           r == DeinterleaveLoop(0, LoopLimit(width, height), buffer,
                                 [image |-> frameBuffer,
                                  subR |-> 0,
                                  subG |-> width * height,
                                  subB |-> width * height * 2,
                                  reads |-> {}, writes |-> {}])
       IN  /\ tmpBuffer' = buffer
           /\ frameBuffer' = r.image
           /\ touched' = [reads |-> r.reads, writes |-> r.writes]
    /\ last' = Did("DeinterleaveRGB", "done", << >>)
    /\ UNCHANGED <<camera, currentVideoFormat, m_Channels, m_BitsPerPixel,
                   m_RawBitsPerPixel, ccd, streamer, bayerCap, resIndex, hw>>
    /\ UNCHANGED <<captureVars, guideVars, now, focuserVars>>

(***************************************************************************)
(* Guide pulses                                                            *)
(***************************************************************************)
PulseLengths == {40, 50, 200}
NSDirections == {"NORTH", "SOUTH"}
WEDirections == {"EAST", "WEST"}

\* A replacement that leaves the old timer armed.
IERmTimerKeeps(armed, id) == armed

\* IERmTimer(id): the timer with that id is no longer armed.
IERmTimer(armed, id) == {t \in armed : t.id # id}

\* What a guide pulse does before and at its hardware command: stopTimer
\* signals and removes an active pulse first.
PulseCalls(active) ==
    IF active THEN <<"GuideComplete", "IERmTimer", "ST4">> ELSE <<"ST4">>

\* IEAddTimer's id for a new timer: one that no armed timer has.
FreshTimerId(armed) == Min({i \in 1..(Cardinality(armed) + 1) :
                               \A t \in armed : t.id # i})

NoneDone == [NS |-> 0, WE |-> 0]

\* A threshold that takes a pulse of exactly GuideWaitMs as short.
WaitedForInclusive(ms) == ms <= GuideWaitMs

\* Is a pulse of ms waited for in the call?
WaitedFor(ms) == ms < GuideWaitMs

\* Image-ready events of the exposures that complete by time t.
CompletedBy(t) == {e \in BagToSet(hwExposing) : e <= t}

RECURSIVE CountOf(_, _)
CountOf(b, S) ==
    IF S = {} THEN 0
    ELSE LET e == CHOOSE x \in S : TRUE
         IN  CopiesIn(e, b) + CountOf(b, S \ {e})

\* The hardware at time t: the exposures completed by then have queued their event.
HwAt(t) ==
    /\ hwReady' = hwReady + CountOf(hwExposing, CompletedBy(t))
    /\ hwExposing' = [e \in BagToSet(hwExposing) \ CompletedBy(t) |-> hwExposing[e]]

\* A pulse that does not look at the result of the ST4 command.
ST4RefusalIgnored(hwOk) == FALSE

\* Toupcam_ST4PlusGuide returned an error: rc < 0.
ST4Refused(hwOk) == ~hwOk

\* stopTimerNS, guidePulseNS
guidePulseNS(ms, dir, hwOk) ==
    /\ pulses < MaxPulses
    /\ pulses' = pulses + 1
    /\ guideDone' = [NS |-> IF NStimerID # -1 THEN 1 ELSE 0, WE |-> 0]
    /\ NSDir' = dir
    /\ IF ST4Refused(hwOk)
       THEN /\ NStimerID' = -1
            /\ guideTimers' = IERmTimer(guideTimers, NStimerID)
            /\ last' = Did("guidePulseNS", "IPS_ALERT", PulseCalls(NStimerID # -1))
            /\ UNCHANGED <<NSPulseEnd, now, hwReady, hwExposing>>
       ELSE IF WaitedFor(ms)
       THEN /\ NStimerID' = -1
            /\ guideTimers' = IERmTimer(guideTimers, NStimerID)
            /\ now' = now + ms
            /\ HwAt(now + ms)
            /\ last' = Did("guidePulseNS", "IPS_OK", PulseCalls(NStimerID # -1))
            /\ UNCHANGED NSPulseEnd
       ELSE LET left == IERmTimer(guideTimers, NStimerID)
                id   == FreshTimerId(left)
            IN  /\ NSPulseEnd' = now + ms
                /\ NStimerID' = id
                /\ guideTimers' = left \cup {[id |-> id, axis |-> "NS", at |-> now + ms]}
                /\ last' = Did("guidePulseNS", "IPS_BUSY", PulseCalls(NStimerID # -1))
                /\ UNCHANGED <<now, hwReady, hwExposing>>
    /\ UNCHANGED <<WEtimerID, WEDir, WEPulseEnd>>
    /\ UNCHANGED <<InExposure, m_SendImage, ExposureRequest, ExposureEnd, nextPoll,
                   sendTimers, hwTriggerMode, streaming, evPc, evTmp, expNo, published,
                   failures, aborted, startedIdle>>
    /\ UNCHANGED <<formatVars, focuserVars>>

\* stopTimerWE, guidePulseWE
guidePulseWE(ms, dir, hwOk) ==
    /\ pulses < MaxPulses
    /\ pulses' = pulses + 1
    /\ guideDone' = [NS |-> 0, WE |-> IF WEtimerID # -1 THEN 1 ELSE 0]
    /\ WEDir' = dir
    /\ IF ST4Refused(hwOk)
       THEN /\ WEtimerID' = -1
            /\ guideTimers' = IERmTimer(guideTimers, WEtimerID)
            /\ last' = Did("guidePulseWE", "IPS_ALERT", PulseCalls(WEtimerID # -1))
            /\ UNCHANGED <<WEPulseEnd, now, hwReady, hwExposing>>
       ELSE IF WaitedFor(ms)
       THEN /\ WEtimerID' = -1
            /\ guideTimers' = IERmTimer(guideTimers, WEtimerID)
            /\ now' = now + ms
            /\ HwAt(now + ms)
            /\ last' = Did("guidePulseWE", "IPS_OK", PulseCalls(WEtimerID # -1))
            /\ UNCHANGED WEPulseEnd
       ELSE LET left == IERmTimer(guideTimers, WEtimerID)
                id   == FreshTimerId(left)
            IN  /\ WEPulseEnd' = now + ms
                /\ WEtimerID' = id
                /\ guideTimers' = left \cup {[id |-> id, axis |-> "WE", at |-> now + ms]}
                /\ last' = Did("guidePulseWE", "IPS_BUSY", PulseCalls(WEtimerID # -1))
                /\ UNCHANGED <<now, hwReady, hwExposing>>
    /\ UNCHANGED <<NStimerID, NSDir, NSPulseEnd>>
    /\ UNCHANGED <<InExposure, m_SendImage, ExposureRequest, ExposureEnd, nextPoll,
                   sendTimers, hwTriggerMode, streaming, evPc, evTmp, expNo, published,
                   failures, aborted, startedIdle>>
    /\ UNCHANGED <<formatVars, focuserVars>>

\* A timer callback that clears both axes' timer ids.
TimerNSClearsBoth ==
    /\ \E t \in guideTimers :
          /\ t.axis = "NS"
          /\ t.at <= now
          /\ guideTimers' = guideTimers \ {t}
    /\ NStimerID' = -1
    /\ WEtimerID' = -1
    /\ guideDone' = [NS |-> 1, WE |-> 0]
    /\ last' = Did("TimerNS", "done", << >>)
    /\ UNCHANGED <<WEDir, WEPulseEnd, NSDir, NSPulseEnd, pulses>>
    /\ UNCHANGED <<captureVars, formatVars, now, focuserVars>>

\* The timer callback of the NS axis.
TimerNS ==
    /\ \E t \in guideTimers :
          /\ t.axis = "NS"
          /\ t.at <= now
          /\ guideTimers' = guideTimers \ {t}
    /\ NStimerID' = -1
    /\ guideDone' = [NS |-> 1, WE |-> 0]
    /\ last' = Did("TimerNS", "done", << >>)
    /\ UNCHANGED <<WEtimerID, WEDir, WEPulseEnd, NSDir, NSPulseEnd, pulses>>
    /\ UNCHANGED <<captureVars, formatVars, now, focuserVars>>

\* A timer callback that leaves the axis's timer id set.
TimerWEKeepsId ==
    /\ \E t \in guideTimers :
          /\ t.axis = "WE"
          /\ t.at <= now
          /\ guideTimers' = guideTimers \ {t}
    /\ guideDone' = [NS |-> 0, WE |-> 1]
    /\ last' = Did("TimerWE", "done", << >>)
    /\ UNCHANGED <<WEtimerID, NStimerID, NSDir, NSPulseEnd, WEDir, WEPulseEnd, pulses>>
    /\ UNCHANGED <<captureVars, formatVars, now, focuserVars>>

\* The timer callback of the WE axis.
TimerWE ==
    /\ \E t \in guideTimers :
          /\ t.axis = "WE"
          /\ t.at <= now
          /\ guideTimers' = guideTimers \ {t}
    /\ WEtimerID' = -1
    /\ guideDone' = [NS |-> 0, WE |-> 1]
    /\ last' = Did("TimerWE", "done", << >>)
    /\ UNCHANGED <<NStimerID, NSDir, NSPulseEnd, WEDir, WEPulseEnd, pulses>>
    /\ UNCHANGED <<captureVars, formatVars, now, focuserVars>>

\* A Disconnect that stops the NS timer only.
DisconnectKeepsWE ==
    /\ hw.running
    /\ guideDone' = [NS |-> IF NStimerID # -1 THEN 1 ELSE 0, WE |-> 0]
    /\ guideTimers' = IERmTimer(guideTimers, NStimerID)
    /\ NStimerID' = -1
    /\ hw' = [hw EXCEPT !.running = FALSE]
    /\ last' = Did("Disconnect", "true",
                   PulseCalls(NStimerID # -1) \o <<"Stop", "Close">>)
    /\ UNCHANGED <<WEtimerID, NSDir, WEDir, NSPulseEnd, WEPulseEnd, pulses>>
    /\ UNCHANGED <<camera, currentVideoFormat, m_Channels, m_BitsPerPixel,
                   m_RawBitsPerPixel, ccd, streamer, bayerCap, resIndex, pixelVars>>
    /\ UNCHANGED <<captureVars, now, focuserVars>>

\* The GuideComplete and IERmTimer calls of stopTimerNS followed by stopTimerWE.
StopTimerCalls(nsActive, weActive) ==
    (IF nsActive THEN <<"GuideComplete", "IERmTimer">> ELSE << >>)
    \o (IF weActive THEN <<"GuideComplete", "IERmTimer">> ELSE << >>)

\* Disconnect: stopTimerNS, stopTimerWE, then the camera is stopped and
\* closed.
Disconnect ==
    /\ hw.running
    /\ guideDone' = [NS |-> IF NStimerID # -1 THEN 1 ELSE 0,
                     WE |-> IF WEtimerID # -1 THEN 1 ELSE 0]
    /\ guideTimers' = IERmTimer(IERmTimer(guideTimers, NStimerID), WEtimerID)
    /\ NStimerID' = -1
    /\ WEtimerID' = -1
    /\ hw' = [hw EXCEPT !.running = FALSE]
    /\ last' = Did("Disconnect", "true",
                   StopTimerCalls(NStimerID # -1, WEtimerID # -1) \o <<"Stop", "Close">>)
    /\ UNCHANGED <<NSDir, WEDir, NSPulseEnd, WEPulseEnd, pulses>>
    /\ UNCHANGED <<camera, currentVideoFormat, m_Channels, m_BitsPerPixel,
                   m_RawBitsPerPixel, ccd, streamer, bayerCap, resIndex, pixelVars>>
    /\ UNCHANGED <<captureVars, now, focuserVars>>

(***************************************************************************)
(* The clock                                                               *)
(***************************************************************************)

\* The due times of everything armed.
TimerDues == {nextPoll} \cup BagToSet(sendTimers) \cup {t.at : t \in guideTimers}

\* The event loop runs a due timer before it sleeps again, so time passes only
\* when no timer is due, and then up to the next instant at which something
\* happens: a timer comes due or a hardware exposure completes.
Tick ==
    /\ \A t \in TimerDues : t > now
    /\ LET next == Min(TimerDues \cup BagToSet(hwExposing))
       IN  /\ next <= MaxTime
           /\ now' = next
           /\ HwAt(next)
    /\ last' = Did("Tick", "time", << >>)
    /\ UNCHANGED <<InExposure, m_SendImage, ExposureRequest, ExposureEnd, nextPoll,
                   sendTimers, hwTriggerMode, streaming, evPc, evTmp, expNo, published,
                   failures, aborted, startedIdle>>
    /\ UNCHANGED <<formatVars, guideVars, focuserVars>>

(***************************************************************************)
(* The Microtouch focuser (microtouch.cpp)                                 *)
(*                                                                         *)
(* The driver writes commands to a serial device.  `last.hw` holds the     *)
(* writes and reads the last operation made, in order: records             *)
(* [cmd, arg, ok], ok telling whether the serial call succeeded.  The      *)
(* temperature values and the speed switches are not followed.             *)
(***************************************************************************)

\* Limits of the absolute position property, initProperties.
FocusAbsPosMin == 0
FocusAbsPosMax == 60000
\* getCurrentPollingPeriod(), ms.
PollingPeriod == 1000
\* Microtouch::currentSpeed.
currentSpeed == 1
\* The maximum-position property the outward timed move adds.
FocusMaxPos == FocusAbsPosMax

\* What the clients ask for.
AbsTargets     == {0, 1000, FocusAbsPosMax, FocusAbsPosMax + 1}
RelTicks       == {1000, 30000}
FocusDirs      == {"FOCUS_INWARD", "FOCUS_OUTWARD"}
FocusSpeeds    == {1, 5}
TimedDurations == {500, 1100, 1500}
\* The steps in which time passes between two polls, ms.
FocusTickSteps == {400, 500}

RECURSIVE Pow2(_)
Pow2(n) == IF n = 0 THEN 1 ELSE 2 * Pow2(n - 1)

\* The conversion of a double to unsigned int, as in MoveFocuser(newPosition).
\* A negative value has no defined result: a build that saturates gives 0, a
\* build that truncates a wider integer gives the value wrapped round, far
\* above every position (taken here modulo 2^31).
UnsignedOutcomes(x) ==
    IF x >= 0 THEN {x} ELSE {0, 2147483647 + (x + 1)}

\* WriteCmdSetIntAsDigits: the four bytes after the command byte.
IntAsDigits(val) ==
    <<val % 10, (val \div 10) % 10, (val \div 100) % 10, val \div 1000>>
\* The position the device reads from them.
DigitsAsInt(dg) == dg[1] + 10 * dg[2] + 100 * dg[3] + 1000 * dg[4]

Wrote(cmd, arg, ok) == [cmd |-> cmd, arg |-> arg, ok |-> ok]

\* MoveFocuser(unsigned int position): the result and the writes made.
MoveFocuser(position, writeOk) ==
    IF position < FocusAbsPosMin \/ position > FocusAbsPosMax
    THEN [rc |-> FALSE, hw |-> << >>]
    ELSE [rc |-> writeOk,
          hw |-> <<Wrote("UPDATE_POSITION", IntAsDigits(position), writeOk)>>]

\* The device: what a write that arrived does to the motor.  A halt stops a
\* moving motor where it started or where it was going.
Receive(m, w) ==
    IF ~w.ok THEN {m}
    ELSE IF w.cmd = "UPDATE_POSITION"
         THEN {[pos |-> m.pos, target |-> DigitsAsInt(w.arg),
                moving |-> DigitsAsInt(w.arg) # m.pos]}
    ELSE IF w.cmd = "HALT"
         THEN {[pos |-> p, target |-> p, moving |-> FALSE] :
                 p \in IF m.moving THEN {m.pos, m.target} ELSE {m.pos}}
    ELSE {m}

RECURSIVE MotorAfter(_, _)
MotorAfter(m, ws) ==
    IF ws = << >> THEN {m}
    ELSE UNION {MotorAfter(x, Tail(ws)) : x \in Receive(m, Head(ws))}

\* The writes of AbortFocuser.
HaltWrites(writeOk) == <<Wrote("HALT", << >>, writeOk)>>

\* The conversion of duration / 1000.0 to the float focusMoveRequest: the
\* float nearest to d / 1000 seconds, as mant * 2^(exp - 23).
FloatExp(d) ==
    CHOOSE e \in -10 .. 6 :
        IF e >= 0 THEN 1000 * Pow2(e) <= d /\ d < 2000 * Pow2(e)
                  ELSE 1000 <= d * Pow2(-e) /\ d * Pow2(-e) < 2000
ToFloat(d) ==
    IF d = 0 THEN [mant |-> 0, exp |-> 0]
    ELSE LET e == FloatExp(d)
             n == d * Pow2(20 - e)
             q == n \div 125
         IN  [mant |-> IF 2 * (n % 125) > 125 THEN q + 1 ELSE q, exp |-> e]

\* CalcTimeLeft(start, req) > 0 at time t: req seconds against the whole
\* milliseconds since start.
TimeLeft(start, req, t) ==
    LET since == t - start
        past  == IF req.exp >= 0 THEN since >= 2000 * Pow2(req.exp)
                                 ELSE since * Pow2(-req.exp) >= 2000
    IN  ~past /\ req.mant * 125 > since * Pow2(20 - req.exp)

\* isMoving(): the byte WriteCmdGetByte returns, compared with 0.  A failed
\* read returns -1 as a char, which is 255 where char is unsigned.
MovingByte(m, linkOk) ==
    IF linkOk THEN {IF m.moving THEN 1 ELSE 0} ELSE {-1, 255}
isMoving(byte) == byte > 0

\* The framework stores the result of the timed move as the state of the
\* timer property, with the duration asked for.
TimerStateAfter(rc) == rc

\* MoveAbsFocuser(targetTicks)
MoveAbsFocuser(targetTicks, writeOk) ==
    /\ moves < MaxMoves
    /\ moves' = moves + 1
    /\ targetPos' = targetTicks
    /\ LET r == MoveFocuser(targetTicks, writeOk)
       IN  /\ motor' \in MotorAfter(motor, r.hw)
           /\ FocusAbsPosNP' = IF r.rc THEN [FocusAbsPosNP EXCEPT !.state = "IPS_BUSY"]
                                       ELSE FocusAbsPosNP
           /\ last' = Did("MoveAbsFocuser", IF r.rc THEN "IPS_BUSY" ELSE "IPS_ALERT", r.hw)
    /\ UNCHANGED <<FocusRelPosNP, FocusTimerNP, focusMoveStart, focusMoveRequest,
                   lastPos, focusPoll, stargoWire>>
    /\ UNCHANGED <<captureVars, formatVars, guideVars, now>>

\* MoveRelFocuser(dir, ticks)
MoveRelFocuser(dir, ticks, writeOk) ==
    /\ moves < MaxMoves
    /\ moves' = moves + 1
    /\ LET newPosition == IF dir = "FOCUS_INWARD" THEN FocusAbsPosNP.value - ticks
                                                  ELSE FocusAbsPosNP.value + ticks
       IN  \E position \in UnsignedOutcomes(newPosition) :
             LET r == MoveFocuser(position, writeOk)
             IN  /\ motor' \in MotorAfter(motor, r.hw)
                 /\ FocusRelPosNP' = IF r.rc THEN [state |-> "IPS_BUSY", value |-> ticks]
                                             ELSE FocusRelPosNP
                 /\ last' = Did("MoveRelFocuser",
                                IF r.rc THEN "IPS_BUSY" ELSE "IPS_ALERT", r.hw)
    /\ UNCHANGED <<FocusAbsPosNP, FocusTimerNP, focusMoveStart, focusMoveRequest,
                   targetPos, lastPos, focusPoll, stargoWire>>
    /\ UNCHANGED <<captureVars, formatVars, guideVars, now>>

\* AbortFocuser()
AbortFocuser(writeOk) ==
    /\ moves < MaxMoves
    /\ moves' = moves + 1
    /\ motor' \in MotorAfter(motor, HaltWrites(writeOk))
    /\ FocusAbsPosNP' = [FocusAbsPosNP EXCEPT !.state = "IPS_IDLE"]
    /\ FocusRelPosNP' = [FocusRelPosNP EXCEPT !.state = "IPS_IDLE"]
    /\ last' = Did("AbortFocuser", "true", HaltWrites(writeOk))
    /\ UNCHANGED <<FocusTimerNP, focusMoveStart, focusMoveRequest, targetPos, lastPos,
                   focusPoll, stargoWire>>
    /\ UNCHANGED <<captureVars, formatVars, guideVars, now>>

\* A duration at most the polling period is slept through.
Blocks(duration) == duration <= PollingPeriod

\* setSpeed(speed): its body is commented out.
setSpeed(speed) == TRUE

\* MoveFocuser(dir, speed, duration): the timed move.  The result of the inner
\* MoveFocuser is not looked at.
MoveFocuserTimed(dir, speed, duration, writeOk) ==
    /\ moves < MaxMoves
    /\ speed = currentSpeed \/ setSpeed(speed)
    /\ moves' = moves + 1
    /\ focusMoveStart' = now
    /\ focusMoveRequest' = ToFloat(duration)
    /\ LET position == IF dir = "FOCUS_INWARD" THEN 0
                       ELSE FocusAbsPosNP.value + FocusMaxPos - 1
           r  == MoveFocuser(position, writeOk)
           writes == IF Blocks(duration) THEN r.hw \o HaltWrites(writeOk) ELSE r.hw
           rc == IF Blocks(duration) THEN "IPS_OK" ELSE "IPS_BUSY"
       IN  /\ motor' \in MotorAfter(motor, writes)
           /\ IF Blocks(duration)
              THEN /\ now + duration <= MaxTime
                   /\ now' = now + duration
                   /\ FocusAbsPosNP' = [FocusAbsPosNP EXCEPT !.state = "IPS_IDLE"]
                   /\ FocusRelPosNP' = [FocusRelPosNP EXCEPT !.state = "IPS_IDLE"]
              ELSE UNCHANGED <<now, FocusAbsPosNP, FocusRelPosNP>>
           /\ FocusTimerNP' = [state |-> TimerStateAfter(rc), asked |-> duration]
           /\ last' = Did("MoveFocuser", rc, writes)
    /\ UNCHANGED <<targetPos, lastPos, focusPoll, stargoWire>>
    /\ UNCHANGED <<captureVars, formatVars, guideVars>>

\* The poll settles a move when the device says it is not moving.
PollNeverSettles(byte) == FALSE
PollSettles(byte) == ~isMoving(byte)

\* TimerHit(): the poll.  Past MaxTime the clock stands still and the polls go on.
MicrotouchTimerHit(linkOk) ==
    /\ now >= focusPoll \/ now >= MaxTime
    /\ LET value   == IF linkOk THEN motor.pos % 65536 ELSE FocusAbsPosNP.value
           reads   == <<Wrote("GET_POSITION", << >>, linkOk),
                        Wrote("GET_TEMPERATURE", << >>, linkOk)>>
           timed   == FocusTimerNP.state = "IPS_BUSY"
           expired == timed /\ ~TimeLeft(focusMoveStart, focusMoveRequest, now)
           halt    == IF expired THEN HaltWrites(linkOk) ELSE << >>
           absSt   == IF expired THEN "IPS_IDLE" ELSE FocusAbsPosNP.state
           relSt   == IF expired THEN "IPS_IDLE" ELSE FocusRelPosNP.state
           asks    == absSt = "IPS_BUSY" \/ relSt = "IPS_BUSY"
       IN  \E byte \in MovingByte(motor, linkOk) :
             LET settled == asks /\ PollSettles(byte)
             IN  /\ motor' \in MotorAfter(motor, halt)
                 /\ FocusTimerNP' = IF expired THEN [FocusTimerNP EXCEPT !.state = "IPS_OK"]
                                               ELSE FocusTimerNP
                 /\ FocusAbsPosNP' = [state |-> IF settled THEN "IPS_OK" ELSE absSt,
                                      value |-> value]
                 /\ FocusRelPosNP' = [FocusRelPosNP EXCEPT
                                         !.state = IF settled THEN "IPS_OK" ELSE relSt]
                 /\ lastPos' = IF settled \/ (linkOk /\ (lastPos - value > 1 \/ value - lastPos > 1))
                               THEN value ELSE lastPos
                 /\ last' = Did("Microtouch::TimerHit",
                                IF settled THEN "settled" ELSE IF expired THEN "expired" ELSE "polled",
                                reads \o halt
                                  \o (IF asks THEN <<Wrote("IS_MOVING", byte, linkOk)>> ELSE << >>))
    /\ focusPoll' = IF now >= focusPoll THEN now + PollingPeriod ELSE focusPoll
    /\ UNCHANGED <<focusMoveStart, focusMoveRequest, targetPos, moves, stargoWire>>
    /\ UNCHANGED <<captureVars, formatVars, guideVars, now>>

\* The device reaches the position it was sent to.
MotorArrives ==
    /\ motor.moving
    /\ motor' = [pos |-> motor.target, target |-> motor.target, moving |-> FALSE]
    /\ last' = Did("MotorArrives", "device", << >>)
    /\ UNCHANGED <<FocusAbsPosNP, FocusRelPosNP, FocusTimerNP, focusMoveStart,
                   focusMoveRequest, targetPos, lastPos, focusPoll, moves, stargoWire>>
    /\ UNCHANGED <<captureVars, formatVars, guideVars, now>>

\* Time passes, at most up to the next poll: by one of the steps, or all the way.
FocuserTickBy(steps) ==
    /\ now < focusPoll
    /\ \E t \in {now + s : s \in steps} \cup {focusPoll, MaxTime} :
          /\ t > now
          /\ t <= focusPoll
          /\ t <= MaxTime
          /\ now' = t
    /\ last' = Did("Tick", "time", << >>)
    /\ UNCHANGED <<captureVars, formatVars, guideVars, focuserVars>>

FocuserTick == FocuserTickBy(FocusTickSteps)

(***************************************************************************)
(* The StarGo focuser: SetFocuserSpeed                                     *)
(***************************************************************************)

\* Limits of the speed property, initProperties.
FocusSpeedMin == 0
FocusSpeedMax == 10

\* param[10][2]
SpeedParam == << <<9000, 1>>, <<6000, 1>>, <<4000, 1>>, <<2500, 1>>, <<1000, 5>>,
                 <<750, 10>>, <<500, 20>>, <<250, 30>>, <<100, 40>>, <<60, 50>> >>

\* What a read outside the table may find.
StrayParams == { <<0, 0>>, <<1, 1>> }

\* param[i], i counted from 0 as the code does.
ParamOutcomes(i) ==
    IF i \in 0 .. Len(SpeedParam) - 1 THEN {SpeedParam[i + 1]} ELSE StrayParams

\* The row SetFocuserSpeed reads.
SpeedRow(speed) == speed - 1

RECURSIVE NumDigits(_)
NumDigits(n) == IF n < 10 THEN 1 ELSE 1 + NumDigits(n \div 10)

\* printf's %<width>d: the number, and the blanks put before it.
Padded(n, width) ==
    [blanks |-> IF NumDigits(n) < width THEN width - NumDigits(n) ELSE 0, number |-> n]

\* sprintf(cmd, ":X1C%4d*%2d#", ...)
SpeedCmd(row) == <<":X1C", Padded(row[1], 4), "*", Padded(row[2], 2), "#">>

\* bool valid = false, never assigned again.
valid == FALSE

\* SetFocuserSpeed(speed); acked: sendQuery returned true.
SetFocuserSpeed(speed, acked) ==
    /\ Len(stargoWire) < MaxSpeedCalls
    /\ \E row \in ParamOutcomes(SpeedRow(speed)) :
          /\ stargoWire' = Append(stargoWire, SpeedCmd(row))
          /\ last' = Did("SetFocuserSpeed",
                         IF ~acked THEN FALSE ELSE valid,
                         <<SpeedRow(speed), acked>>)
    /\ UNCHANGED <<captureVars, formatVars, guideVars, microtouchVars, now>>

(***************************************************************************)
(* The initial state: the driver is connected, setupParams has run on a    *)
(* camera in RGB mode at its first resolution, nothing is in progress.     *)
(***************************************************************************)
Init ==
    /\ InExposure = FALSE
    /\ m_SendImage = FALSE
    /\ ExposureRequest = 0
    /\ ExposureEnd = 0
    /\ now = 0
    /\ nextPoll \in PollPhases
    /\ sendTimers = EmptyBag
    /\ hwTriggerMode = TRUE
    /\ hwExposing = EmptyBag
    /\ hwReady = 0
    /\ streaming = FALSE
    /\ evPc = "idle"
    /\ evTmp = FALSE
    /\ expNo = 0
    /\ published = 0
    /\ failures = FALSE
    /\ aborted = "no"
    /\ startedIdle = TRUE
    /\ last = Did("Connect", "true", << >>)
    /\ camera \in Cameras
    /\ currentVideoFormat = "RGB"
    /\ m_Channels = IF camera.mono THEN 1 ELSE 3
    /\ m_BitsPerPixel = IF camera.mono THEN camera.rawDepth ELSE 8
    /\ m_RawBitsPerPixel = 8
    /\ ccd = [XRes |-> Resolutions[1].w, YRes |-> Resolutions[1].h,
              SubX |-> 0, SubY |-> 0,
              SubW |-> Resolutions[1].w, SubH |-> Resolutions[1].h,
              BinX |-> 1, BinY |-> 1, BPP |-> 8, NAxis |-> 3,
              FrameBufferSize |-> AllocSize("RGB", Resolutions[1].w, Resolutions[1].h, 8)]
    /\ streamer = [w |-> Resolutions[1].w, h |-> Resolutions[1].h,
                   fmt |-> "INDI_RGB", depth |-> 8]
    /\ bayerCap = FALSE
    /\ resIndex = 1
    /\ hw = [raw |-> 0, bitdepth |-> 0, pixfmt |-> "RGB24", rgb |-> 0,
             roi |-> <<0, 0, Resolutions[1].w, Resolutions[1].h>>,
             roiAsked |-> <<0, 0, Resolutions[1].w, Resolutions[1].h>>, bin |-> 1,
             esize |-> 1, running |-> TRUE]
    /\ tmpBuffer = NoBytes
    /\ frameBuffer = NoBytes
    /\ touched = [reads |-> {}, writes |-> {}]
    /\ NStimerID = -1
    /\ WEtimerID = -1
    /\ NSDir = "NORTH"
    /\ WEDir = "WEST"
    /\ NSPulseEnd = 0
    /\ WEPulseEnd = 0
    /\ guideTimers = {}
    /\ guideDone = NoneDone
    /\ pulses = 0
    /\ FocusAbsPosNP = [state |-> "IPS_OK", value |-> 0]
    /\ FocusRelPosNP = [state |-> "IPS_OK", value |-> 0]
    /\ FocusTimerNP = [state |-> "IPS_OK", asked |-> 0]
    /\ focusMoveStart = 0
    /\ focusMoveRequest = ToFloat(0)
    /\ targetPos = 0
    /\ lastPos = 0
    /\ motor = [pos |-> 0, target |-> 0, moving |-> FALSE]
    /\ focusPoll = PollingPeriod
    /\ moves = 0
    /\ stargoWire = << >>

(***************************************************************************)
(* Specifications, one per part of the driver.                             *)
(***************************************************************************)
NextCapture ==
    \/ \E d \in Durations, failAt \in 0..3 : StartExposure(d, failAt)
    \/ \E hwOk \in BOOLEAN : AbortExposure(hwOk)
    \/ \E t \in BagToSet(sendTimers) : sendImageCallBack(t)
    \/ TimerHit
    \/ \E pullOk \in BOOLEAN : EventImageBegin(pullOk)
    \/ \E pullOk \in BOOLEAN : EventImagePull(pullOk)
    \/ EventImageDeliver
    \/ Tick

\* The exposure logic does not read the camera model.
InitCapture == Init /\ camera.raw

SpecCapture == InitCapture /\ [][NextCapture]_vars

\* Exposure durations around the lead of the wake-up timer and the poll period.
WakeDurations == {49, 50, 999, 1000, 1020, 1049, 1050}

\* Starting exposures and the timers that follow them.
NextWakeUp ==
    \/ \E d \in WakeDurations, failAt \in 0..1 : StartExposure(d, failAt)
    \/ \E t \in BagToSet(sendTimers) : sendImageCallBack(t)
    \/ TimerHit
    \/ Tick

SpecWakeUp == InitCapture /\ [][NextWakeUp]_vars

\* Streaming, with short exposures asked for alongside so that m_SendImage
\* takes both values while frames arrive.
NextStream ==
    \/ \E hwOk \in BOOLEAN : StartStreaming(hwOk)
    \/ \E hwOk \in BOOLEAN : StopStreaming(hwOk)
    \/ HwVideoFrame
    \/ \E pullOk \in BOOLEAN : EventImageBegin(pullOk)
    \/ \E pullOk \in BOOLEAN : EventImagePull(pullOk)
    \/ EventImageDeliver
    \/ \E failAt \in 0..3 : StartExposure(0, failAt)
    \/ \E t \in BagToSet(sendTimers) : sendImageCallBack(t)

InitStream == Init /\ nextPoll = POLLMS

SpecStream == InitStream /\ [][NextStream]_vars

\* Format and resolution changes, with streaming switched on and off.
NextVideoFormat ==
    \/ \E target \in VideoFormats, failAt \in 0..4 : SetVideoFormat(target, failAt)
    \/ \E idx \in 1..Len(Resolutions), sizeOk \in BOOLEAN : SetResolution(idx, sizeOk)
    \/ \E hwOk \in BOOLEAN : StartStreaming(hwOk)
    \/ \E hwOk \in BOOLEAN : StopStreaming(hwOk)

SpecVideoFormat == Init /\ [][NextVideoFormat]_vars

\* Frame and binning requests only.
NextGeometry ==
    \/ \E f \in FrameRequests, roiOk \in BOOLEAN :
          UpdateCCDFrame(f[1], f[2], f[3], f[4], roiOk)
    \/ \E binx \in BinFactors, biny \in BinFactors, binOk \in BOOLEAN, roiOk \in BOOLEAN :
          UpdateCCDBin(binx, biny, binOk, roiOk)

SpecGeometry == Init /\ [][NextGeometry]_vars

NextFormat ==
    \/ \E target \in VideoFormats, failAt \in 0..4 : SetVideoFormat(target, failAt)
    \/ \E idx \in 1..Len(Resolutions), sizeOk \in BOOLEAN : SetResolution(idx, sizeOk)
    \/ \E f \in FrameRequests, roiOk \in BOOLEAN :
          UpdateCCDFrame(f[1], f[2], f[3], f[4], roiOk)
    \/ \E bx \in BinFactors, by \in BinFactors, binOk \in BOOLEAN, roiOk \in BOOLEAN :
          UpdateCCDBin(bx, by, binOk, roiOk)
    \/ \E hwOk \in BOOLEAN : StartStreaming(hwOk)
    \/ \E hwOk \in BOOLEAN : StopStreaming(hwOk)

SpecFormat == Init /\ [][NextFormat]_vars

NextGuide ==
    \/ \E ms \in PulseLengths, dir \in NSDirections, hwOk \in BOOLEAN :
          guidePulseNS(ms, dir, hwOk)
    \/ \E ms \in PulseLengths, dir \in WEDirections, hwOk \in BOOLEAN :
          guidePulseWE(ms, dir, hwOk)
    \/ TimerNS
    \/ TimerWE
    \/ TimerHit
    \/ Tick

\* The guide logic reads neither the camera model nor the poll timer's phase.
InitGuide == Init /\ camera.raw /\ nextPoll = POLLMS

SpecGuide == InitGuide /\ [][NextGuide]_vars

\* Format and frame changes alongside exposures and streaming.
NextResize ==
    \/ \E failAt \in 0..1 : StartExposure(2000, failAt)
    \/ \E hwOk \in BOOLEAN : AbortExposure(hwOk)
    \/ \E target \in VideoFormats, failAt \in 0..1 : SetVideoFormat(target, failAt)
    \/ \E f \in FrameRequests, roiOk \in BOOLEAN :
          UpdateCCDFrame(f[1], f[2], f[3], f[4], roiOk)
    \/ \E hwOk \in BOOLEAN : StartStreaming(hwOk)
    \/ \E hwOk \in BOOLEAN : StopStreaming(hwOk)

SpecResize == InitStream /\ [][NextResize]_vars

\* Small sub-frames, binning and the de-interleave of a pulled RGB image.
NextDeinterleave ==
    \/ \E f \in PixelFrames, roiOk \in BOOLEAN :
          UpdateCCDFrame(f[1], f[2], f[3], f[4], roiOk)
    \/ \E binx \in BinFactors, binOk \in BOOLEAN, roiOk \in BOOLEAN :
          UpdateCCDBin(binx, binx, binOk, roiOk)
    \/ \E p \in PixelPatterns : DeinterleaveRGB(p)

\* An RGB image comes from a colour camera.
InitDeinterleave == InitStream /\ camera.raw

SpecDeinterleave == InitDeinterleave /\ [][NextDeinterleave]_vars

\* Hardware events of every kind, with exposures and guide pulses under way.
NextEvents ==
    \/ \E failAt \in 0..1 : StartExposure(0, failAt)
    \/ \E t \in BagToSet(sendTimers) : sendImageCallBack(t)
    \/ \E event \in HardwareEvents, pullOk \in BOOLEAN : eventPullCallBack(event, pullOk)
    \/ \E pullOk \in BOOLEAN : EventImagePull(pullOk)
    \/ EventImageDeliver
    \/ \E dir \in NSDirections : guidePulseNS(200, dir, TRUE)

SpecEvents == InitGuide /\ [][NextEvents]_vars

\* Guide pulses on a connected camera, the timers, and Disconnect; a client
\* asks for pulses only while the camera is connected.
NextDisconnect ==
    \/ \E ms \in PulseLengths, dir \in NSDirections :
          hw.running /\ guidePulseNS(ms, dir, TRUE)
    \/ \E ms \in PulseLengths, dir \in WEDirections :
          hw.running /\ guidePulseWE(ms, dir, TRUE)
    \/ TimerNS
    \/ TimerWE
    \/ TimerHit
    \/ Tick
    \/ Disconnect

SpecDisconnect == InitGuide /\ [][NextDisconnect]_vars

\* The Microtouch focuser: clients, the poll, the device, time.
NextMicrotouch ==
    \/ \E targetTicks \in AbsTargets, writeOk \in BOOLEAN :
          MoveAbsFocuser(targetTicks, writeOk)
    \/ \E dir \in FocusDirs, ticks \in RelTicks, writeOk \in BOOLEAN :
          MoveRelFocuser(dir, ticks, writeOk)
    \/ \E dir \in FocusDirs, speed \in FocusSpeeds, duration \in TimedDurations :
          MoveFocuserTimed(dir, speed, duration, TRUE)
    \/ \E writeOk \in BOOLEAN : AbortFocuser(writeOk)
    \/ \E linkOk \in BOOLEAN : MicrotouchTimerHit(linkOk)
    \/ MotorArrives
    \/ FocuserTick

SpecMicrotouch == InitGuide /\ [][NextMicrotouch]_vars

\* The Microtouch focuser, how its moves end: time passes from poll to poll.
NextSettle ==
    \/ MoveAbsFocuser(1000, TRUE)
    \/ \E dir \in FocusDirs, writeOk \in BOOLEAN : MoveRelFocuser(dir, 1000, writeOk)
    \/ \E duration \in {500, 1100} :
          MoveFocuserTimed("FOCUS_INWARD", currentSpeed, duration, TRUE)
    \/ AbortFocuser(TRUE)
    \/ \E linkOk \in BOOLEAN : MicrotouchTimerHit(linkOk)
    \/ MotorArrives
    \/ FocuserTickBy({})

\* The event loop keeps polling, the device answers the polls again and again,
\* a moving motor arrives, and time passes.
SpecSettle ==
    /\ InitGuide
    /\ [][NextSettle]_vars
    /\ WF_vars(MicrotouchTimerHit(TRUE))
    /\ WF_vars(MotorArrives)
    /\ WF_vars(FocuserTickBy({}))

\* The StarGo focuser: clients set the speed.
NextStarGo ==
    \E speed \in FocusSpeedMin .. FocusSpeedMax, acked \in BOOLEAN :
        SetFocuserSpeed(speed, acked)

SpecStarGo == InitGuide /\ [][NextStarGo]_vars

(***************************************************************************)
(* Claims                                                                  *)
(***************************************************************************)

\* C1: after a successful StartExposure, ExposureComplete is called at most
\* once before the next StartExposure, whatever the order of the image events,
\* the wake-up timers and the poll timer.  Stated for the exposures that were
\* started with no exposure in progress and no image to send.
C1_AtMostOnePublish == startedIdle => published <= 1

\* Nothing is left that could deliver an image: no exposure in progress, no
\* wake-up timer armed, no hardware exposure running, no event queued or in
\* the handler.
Quiet ==
    /\ ~InExposure
    /\ sendTimers = EmptyBag
    /\ hwExposing = EmptyBag
    /\ hwReady = 0
    /\ evPc = "idle"

\* Delivery attempts since the last successful StartExposure.
Attempts == published + (IF failures THEN 1 ELSE 0)

\* C2: a successful StartExposure is followed by exactly one delivery attempt
\* (a published frame or a failed status) and a return to idle: once the one
\* exposure of a run that was never aborted has had its hardware event and its
\* timers, one attempt has been made.
C2_OneDeliveryAttempt == (expNo = 1 /\ aborted = "no" /\ Quiet) => Attempts = 1

\* C3: StartExposure while an exposure is in progress fails, issues no
\* hardware command and leaves the requested duration and the deadline alone.
C3_StartWhileExposingFails ==
    [][ \A d \in Durations, failAt \in 0..3 :
          (InExposure /\ StartExposure(d, failAt))
             => /\ last'.rc = "false"
                /\ last'.hw = << >>
                /\ ExposureRequest' = ExposureRequest
                /\ ExposureEnd' = ExposureEnd ]_vars

\* C4: when AbortExposure returns, InExposure and send-pending are both false.
\* Stated for the calls the hardware accepts.
C4_AbortClearsSession ==
    last = Did("AbortExposure", "true", <<"Trigger0">>) => (~InExposure /\ ~m_SendImage)

\* C5: after an AbortExposure that the hardware accepted no frame is published
\* until the next successful StartExposure.
C5_NoPublishAfterAbort ==
    [][ (aborted = "done" /\ aborted' = "done") => published' = published ]_vars

C7_FormatRefusedWhileStreaming ==
    [][ \A target \in VideoFormats, failAt \in 0..4 :
          (streaming /\ SetVideoFormat(target, failAt))
             => /\ last'.rc = "alertStreaming"
                /\ last'.hw = << >>
                /\ hw' = hw
                /\ currentVideoFormat' = currentVideoFormat
                /\ m_Channels' = m_Channels
                /\ m_BitsPerPixel' = m_BitsPerPixel
                /\ ccd' = ccd ]_vars

\* C7 witness: a change to another format was refused while streaming.
C7_Witness ==
    /\ streaming
    /\ last.op = "SetVideoFormat"
    /\ last.rc = "alertStreaming"
    /\ currentVideoFormat = "RGB"
    /\ hw.raw = 0

SizeChanges == {"SetVideoFormat", "SetResolution", "UpdateCCDFrame", "UpdateCCDBin"}

\* C8: after a successful format, resolution, frame or binning change the
\* frame buffer holds width x height x bytesPerPixel x channels bytes, for the
\* current sub-frame and the active format descriptor.
C8_BufferSizeFormula ==
    (last.op \in SizeChanges /\ last.rc \in {"ok", "true"})
       => ccd.FrameBufferSize * 8 = ccd.SubW * ccd.SubH * m_BitsPerPixel * m_Channels

\* The frame UpdateCCDFrame is to store for a request.
Rounded(f) == << f[1] - (f[1] % 2), f[2] - (f[2] % 2), f[3] - (f[3] % 2), f[4] - (f[4] % 2) >>

\* C9: UpdateCCDFrame rounds x, y, w, h down to even before it validates and
\* applies them: a request whose rounded size fits the sensor is sent to the
\* hardware rounded and, when accepted, stored rounded.
C9_FrameRoundedDown ==
    [][ \A f \in FrameRequests, roiOk \in BOOLEAN :
          ( /\ UpdateCCDFrame(f[1], f[2], f[3], f[4], roiOk)
            /\ Rounded(f)[3] <= ccd.XRes
            /\ Rounded(f)[4] <= ccd.YRes )
             => /\ hw'.roiAsked = Rounded(f)
                /\ roiOk => /\ last'.rc = "true"
                            /\ hw'.roi = Rounded(f)
                            /\ <<ccd'.SubX, ccd'.SubY, ccd'.SubW, ccd'.SubH>> = Rounded(f) ]_vars

\* C9 witness: the frame (5, 7, 101, 51) was stored as (4, 6, 100, 50).
C9_Witness ==
    /\ last = Did("UpdateCCDFrame", "true", <<"Roi">>)
    /\ hw.roi = <<4, 6, 100, 50>>
    /\ <<ccd.SubX, ccd.SubY, ccd.SubW, ccd.SubH>> = <<4, 6, 100, 50>>

NSStep == TimerNS \/ \E ms \in PulseLengths, dir \in NSDirections, hwOk \in BOOLEAN :
                        guidePulseNS(ms, dir, hwOk)
WEStep == TimerWE \/ \E ms \in PulseLengths, dir \in WEDirections, hwOk \in BOOLEAN :
                        guidePulseWE(ms, dir, hwOk)

TimersOf(axis, armed) == {t \in armed : t.axis = axis}

\* C10: starting, completing or replacing a pulse on one axis leaves the other
\* axis's timer id, direction, deadline and armed timer as they were and
\* signals no completion for it.
C10_AxesIndependent ==
    [][ /\ NSStep => /\ UNCHANGED <<WEtimerID, WEDir, WEPulseEnd>>
                     /\ TimersOf("WE", guideTimers') = TimersOf("WE", guideTimers)
                     /\ guideDone'.WE = 0
        /\ WEStep => /\ UNCHANGED <<NStimerID, NSDir, NSPulseEnd>>
                     /\ TimersOf("NS", guideTimers') = TimersOf("NS", guideTimers)
                     /\ guideDone'.NS = 0 ]_vars

\* C10 witness: the NS timer fired while a WE pulse was active.
C10_Witness ==
    /\ last.op = "TimerNS"
    /\ NStimerID = -1
    /\ WEtimerID # -1
    /\ TimersOf("WE", guideTimers) # {}

\* C11: a guide pulse shorter than 50 ms that the hardware accepts returns
\* IPS_OK after waiting for the pulse, arms no timer and leaves the axis's
\* timer id at -1; a pulse of exactly 50 ms is scheduled, not waited for.
C11_ShortPulseDoneInCall ==
    [][ /\ \A ms \in PulseLengths, dir \in NSDirections :
             guidePulseNS(ms, dir, TRUE)
                => IF ms < 50
                   THEN /\ last'.rc = "IPS_OK"
                        /\ NStimerID' = -1
                        /\ TimersOf("NS", guideTimers') = {}
                        /\ now' = now + ms
                   ELSE /\ last'.rc = "IPS_BUSY"
                        /\ NStimerID' # -1
                        /\ now' = now
        /\ \A ms \in PulseLengths, dir \in WEDirections :
             guidePulseWE(ms, dir, TRUE)
                => IF ms < 50
                   THEN /\ last'.rc = "IPS_OK"
                        /\ WEtimerID' = -1
                        /\ TimersOf("WE", guideTimers') = {}
                        /\ now' = now + ms
                   ELSE /\ last'.rc = "IPS_BUSY"
                        /\ WEtimerID' # -1
                        /\ now' = now ]_vars

\* C11 witness: a 40 ms WE pulse replaced an active one and was done in the call.
C11_Witness ==
    /\ last = Did("guidePulseWE", "IPS_OK", PulseCalls(TRUE))
    /\ WEtimerID = -1
    /\ TimersOf("WE", guideTimers) = {}
    /\ now >= 40

\* An axis is active exactly when the timer its id names is armed.
ActiveIffArmed ==
    /\ NStimerID # -1 <=> \E t \in TimersOf("NS", guideTimers) : t.id = NStimerID
    /\ WEtimerID # -1 <=> \E t \in TimersOf("WE", guideTimers) : t.id = WEtimerID
    /\ NStimerID = -1 => TimersOf("NS", guideTimers) = {}
    /\ WEtimerID = -1 => TimersOf("WE", guideTimers) = {}

C14_OneTimerPerAxis ==
    [][ /\ Cardinality(TimersOf("NS", guideTimers')) <= 1
        /\ Cardinality(TimersOf("WE", guideTimers')) <= 1
        /\ \A ms \in PulseLengths, dir \in NSDirections, hwOk \in BOOLEAN :
             (guidePulseNS(ms, dir, hwOk) /\ NStimerID # -1)
                => /\ guideDone'.NS = 1
                   /\ last'.hw = <<"GuideComplete", "IERmTimer", "ST4">>
                   /\ TimersOf("NS", guideTimers')
                         \subseteq {[id |-> NStimerID', axis |-> "NS", at |-> now + ms]}
                   /\ (~hwOk \/ ms < 50) => TimersOf("NS", guideTimers') = {}
        /\ \A ms \in PulseLengths, dir \in WEDirections, hwOk \in BOOLEAN :
             (guidePulseWE(ms, dir, hwOk) /\ WEtimerID # -1)
                => /\ guideDone'.WE = 1
                   /\ last'.hw = <<"GuideComplete", "IERmTimer", "ST4">>
                   /\ TimersOf("WE", guideTimers')
                         \subseteq {[id |-> WEtimerID', axis |-> "WE", at |-> now + ms]}
                   /\ (~hwOk \/ ms < 50) => TimersOf("WE", guideTimers') = {} ]_vars

\* C14 witness: a 200 ms NS pulse replaced an active 50 ms pulse before its
\* deadline; one timer is armed, the new one.
C14_Witness ==
    /\ last = Did("guidePulseNS", "IPS_BUSY", PulseCalls(TRUE))
    /\ guideDone.NS = 1
    /\ TimersOf("NS", guideTimers) = {[id |-> NStimerID, axis |-> "NS", at |-> now + 200]}
    /\ now < 50

\* C13: while streaming, an image event whose pull succeeds hands the frame
\* buffer to the Streamer once, straight from the pull: no temporary buffer,
\* no de-interleave or ExposureComplete, whatever m_SendImage is, and
\* m_SendImage and InExposure stay as they were; a failed pull hands over
\* nothing.
C13_StreamedFramePublished ==
    [][ \A pullOk \in BOOLEAN :
          (streaming /\ EventImageBegin(pullOk))
             => /\ last' = IF pullOk
                           THEN Did("EventImage", "streamed", <<"PullImage", "newFrame">>)
                           ELSE Did("EventImage", "streamPullFailed", <<"PullImage">>)
                /\ evPc' = "idle"
                /\ UNCHANGED <<evTmp, m_SendImage, InExposure, published, failures>> ]_vars

\* C13 witness: a frame was streamed while an image was waiting to be sent.
C13_Witness ==
    /\ streaming
    /\ last.rc = "streamed"
    /\ m_SendImage
    /\ published = 0

\* C15: a StartExposure in which the hardware refuses a command fails and
\* leaves the exposure state as it was: InExposure, send-pending, requested
\* duration, deadline, and no wake-up timer armed.
C15_RefusedStartChangesNothing ==
    [][ \A d \in Durations, failAt \in 1..3 :
          StartExposure(d, failAt)
             => /\ last'.rc = "false"
                /\ UNCHANGED <<InExposure, m_SendImage, ExposureRequest, ExposureEnd,
                               sendTimers>> ]_vars

\* C16: when a StartExposure from idle has returned true, InExposure and
\* send-pending are true and the deadline is the start time plus the requested
\* duration.
C16_StartedExposureIsPending ==
    (last = Did("StartExposure", "true", StartExposureCalls) /\ startedIdle)
       => /\ InExposure
          /\ m_SendImage
          /\ ExposureEnd = now + ExposureRequest

Written(target, opt) ==
    CASE opt = "raw"      -> 1
      [] opt = "bitdepth" -> 1
      [] opt = "pixfmt"   -> "RAW12"
      [] opt = "rgb"      -> IF target = "MONO_8" THEN 3
                             ELSE IF target = "MONO_16" THEN 4 ELSE 0

OptionOrder == <<"raw", "bitdepth", "pixfmt", "rgb">>

\* The formats the camera model lets a client select.
Selectable(target) ==
    /\ ~(camera.maxBits = 8 /\ target = "MONO_16")
    /\ ~(target = "RAW" /\ ~camera.raw)
    /\ ~(target = "RGB" /\ camera.mono)

\* C18: when the hardware refuses the k-th option write of a format change,
\* the hardware calls made are Stop, the first k option writes and the restart
\* of capture, an alert is reported, the options written before the k-th keep
\* their new values, the others keep their old ones, and the format, channel
\* count, bits per pixel and PrimaryCCD (frame buffer size included) are
\* unchanged.
C18_RefusedStepStopsFormatChange ==
    [][ \A target \in VideoFormats, k \in 1..4 :
          (~streaming /\ Selectable(target) /\ SetVideoFormat(target, k))
             => /\ last'.rc = "alertRefused"
                /\ last'.hw = <<"Stop">> \o SubSeq(OptionOrder, 1, k) \o <<"Start">>
                /\ hw'.running
                /\ \A i \in 1..4 :
                      hw'[OptionOrder[i]] = IF i < k THEN Written(target, OptionOrder[i])
                                            ELSE hw[OptionOrder[i]]
                /\ UNCHANGED <<currentVideoFormat, m_Channels, m_BitsPerPixel, ccd,
                               streamer>> ]_vars

\* C18 witness: a change from RGB was refused at the bit depth; the raw option
\* stays written and the format is still RGB.
C18_Witness ==
    /\ last = Did("SetVideoFormat", "alertRefused", <<"Stop", "raw", "bitdepth", "Start">>)
    /\ hw.raw = 1
    /\ hw.bitdepth = 0
    /\ hw.running
    /\ currentVideoFormat = "RGB"
    /\ m_Channels = 3

\* C19: UpdateCCDFrame returns false without a hardware call when the rounded
\* width or height exceeds the sensor resolution, and returns false when the
\* hardware refuses the ROI; either way the sub-frame, the frame buffer size
\* and the Streamer's size are unchanged.
C19_RejectedFrameChangesNothing ==
    [][ \A f \in FrameRequests, roiOk \in BOOLEAN :
          UpdateCCDFrame(f[1], f[2], f[3], f[4], roiOk)
             => /\ (Rounded(f)[3] > ccd.XRes \/ Rounded(f)[4] > ccd.YRes)
                   => /\ last'.rc \in {"invalidWidth", "invalidHeight"}
                      /\ last'.hw = << >>
                      /\ hw' = hw
                      /\ ccd' = ccd
                      /\ streamer' = streamer
                /\ (Rounded(f)[3] <= ccd.XRes /\ Rounded(f)[4] <= ccd.YRes /\ ~roiOk)
                   => /\ last' = Did("UpdateCCDFrame", "roiRefused", <<"Roi">>)
                      /\ hw'.roi = hw.roi
                      /\ ccd' = ccd
                      /\ streamer' = streamer ]_vars

\* C19 witness: a frame 108 wide was rejected on the 106 x 58 sensor after a
\* sub-frame had been set.
C19_Witness ==
    /\ last = Did("UpdateCCDFrame", "invalidWidth", << >>)
    /\ ccd.XRes = 106
    /\ <<ccd.SubX, ccd.SubY, ccd.SubW, ccd.SubH>> = <<4, 6, 100, 50>>
    /\ hw.roi = <<4, 6, 100, 50>>

StoredFrameEven ==
    /\ ccd.SubX % 2 = 0
    /\ ccd.SubY % 2 = 0
    /\ ccd.SubW % 2 = 0
    /\ ccd.SubH % 2 = 0

\* C20 as stated: after any frame and binning requests the stored frame has
\* even x, y, w, h, and w and h do not exceed the sensor resolution divided
\* by the binning factors.
C20_FrameWithinBinnedSensor ==
    /\ StoredFrameEven
    /\ ccd.SubW <= ccd.XRes \div ccd.BinX
    /\ ccd.SubH <= ccd.YRes \div ccd.BinY

\* C20 amended: after any frame and binning requests the stored frame, which
\* is in unbinned pixels, has even x, y, w, h, and w and h do not exceed the
\* sensor resolution; it is the frame the hardware has.
C20_FrameWithinSensor ==
    /\ StoredFrameEven
    /\ ccd.SubW <= ccd.XRes
    /\ ccd.SubH <= ccd.YRes
    /\ hw.roi = <<ccd.SubX, ccd.SubY, ccd.SubW, ccd.SubH>>

\* C20 witness: binning 2 was set on the sub-frame (4, 6, 100, 50), wider
\* than half the sensor.
C20_Witness ==
    /\ last = Did("UpdateCCDBin", "true", <<"Binning", "Roi">>)
    /\ ccd.BinX = 2
    /\ <<ccd.SubX, ccd.SubY, ccd.SubW, ccd.SubH>> = <<4, 6, 100, 50>>
    /\ streamer.w = 50

\* C21: UpdateCCDBin(binx, biny) leaves the stored binning, the sub-frame, the
\* frame buffer size and the Streamer's size unchanged when the hardware
\* refuses the binning; when the binning and the ROI are accepted the stored
\* factors are (binx, biny), the sub-frame is the one it was, and the
\* Streamer's size is (w / binx) x (h / biny), also when binx # biny.
C21_BinningStoredAsAsked ==
    [][ \A binx \in BinFactors, biny \in BinFactors, binOk \in BOOLEAN, roiOk \in BOOLEAN :
          UpdateCCDBin(binx, biny, binOk, roiOk)
             => /\ ~binOk => /\ last'.rc = "binRefused"
                             /\ UNCHANGED <<ccd, streamer>>
                /\ (binOk /\ roiOk)
                   => /\ last' = Did("UpdateCCDBin", "true", <<"Binning", "Roi">>)
                      /\ <<ccd'.BinX, ccd'.BinY>> = <<binx, biny>>
                      /\ <<ccd'.SubX, ccd'.SubY, ccd'.SubW, ccd'.SubH>>
                            = <<ccd.SubX, ccd.SubY, ccd.SubW, ccd.SubH>>
                      /\ streamer'.w = ccd.SubW \div binx
                      /\ streamer'.h = ccd.SubH \div biny ]_vars

\* C22: when the pull of an image event fails while send-pending is true, the
\* exposure is marked failed, nothing is published, and send-pending is false
\* when the handler returns.
C22_FailedPullClearsSendPending ==
    [][ (m_SendImage /\ ~streaming /\ EventImagePull(FALSE))
           => /\ failures'
              /\ published' = published
              /\ evPc' = "idle"
              /\ ~m_SendImage' ]_vars

\* C23: the frame buffer is resized only while the driver is neither streaming
\* nor exposing: no step taken while streaming or while an exposure is in
\* progress changes the frame buffer size.
C23_NoResizeWhileBusy ==
    [][ (streaming \/ InExposure) => ccd'.FrameBufferSize = ccd.FrameBufferSize ]_vars

\* C24: when the hardware refuses the ST4 command, the guide pulse returns
\* IPS_ALERT, arms no timer, and its axis is idle on return (timer id -1, no
\* timer of that axis armed), whatever the axis was before the call; the
\* other axis keeps its timer.
C24_RefusedPulseLeavesAxisIdle ==
    [][ /\ \A ms \in PulseLengths, dir \in NSDirections :
              guidePulseNS(ms, dir, FALSE)
                 => /\ last'.rc = "IPS_ALERT"
                    /\ NStimerID' = -1
                    /\ TimersOf("NS", guideTimers') = {}
                    /\ TimersOf("WE", guideTimers') = TimersOf("WE", guideTimers)
                    /\ WEtimerID' = WEtimerID
        /\ \A ms \in PulseLengths, dir \in WEDirections :
              guidePulseWE(ms, dir, FALSE)
                 => /\ last'.rc = "IPS_ALERT"
                    /\ WEtimerID' = -1
                    /\ TimersOf("WE", guideTimers') = {}
                    /\ TimersOf("NS", guideTimers') = TimersOf("NS", guideTimers)
                    /\ NStimerID' = NStimerID ]_vars

\* C24 witness: a pulse was refused on the NS axis while a pulse was active on
\* it and another on the WE axis; NS is idle, WE still has its timer.
C24_Witness ==
    /\ last = Did("guidePulseNS", "IPS_ALERT", <<"GuideComplete", "IERmTimer", "ST4">>)
    /\ NStimerID = -1
    /\ guideDone.NS = 1
    /\ WEtimerID # -1
    /\ guideTimers = {[id |-> WEtimerID, axis |-> "WE", at |-> WEPulseEnd]}

\* C25: the handlers' accesses to the shared exposure state are serialized:
\* while eventPullCallBack is between its first test of send-pending and its
\* return, no other handler (wake-up timer, poll timer, client operation)
\* writes send-pending.
C25_HandlersSerialized ==
    [][ (evPc # "idle" /\ m_SendImage' # m_SendImage) => last'.op = "EventImage" ]_vars

\* C26: in a single-exposure delivery the buffer the handler frees is the
\* temporary buffer it allocated for that delivery, never PrimaryCCD's frame
\* buffer, on the pull-success and the pull-failure path, also when a timer
\* sets send-pending while the handler runs.
C26_OnlyTemporaryBufferFreed ==
    last.op = "EventImage" => last.rc \notin {"publishedFreeLive", "pullFailedFreeLive"}

\* The plane size of the stored geometry: binned width x binned height.
PlaneSize == (ccd.SubW \div ccd.BinX) * (ccd.SubH \div ccd.BinY)

OptionsFor(target) == IF target = "RAW" THEN SubSeq(OptionOrder, 1, 3) ELSE OptionOrder

\* C28: a format change that passes validation stops capture first, then
\* writes the options raw, bit depth, pixel format and RGB mode in that order
\* (the RGB mode only when the target is not RAW) up to the first refused
\* write, and restarts capture once, last, on every path; capture is running
\* when it returns.
C28_StopWriteInOrderRestart ==
    [][ \A target \in VideoFormats, failAt \in 0..4 :
          (~streaming /\ Selectable(target) /\ SetVideoFormat(target, failAt))
             => LET calls == last'.hw
                    n     == IF failAt = 0 THEN Len(OptionsFor(target)) ELSE failAt
                IN  /\ failAt <= Len(OptionsFor(target))
                    /\ calls = <<"Stop">> \o SubSeq(OptionsFor(target), 1, n) \o <<"Start">>
                    /\ Cardinality({i \in DOMAIN calls : calls[i] = "Start"}) = 1
                    /\ Cardinality({i \in DOMAIN calls : calls[i] = "Stop"}) = 1
                    /\ hw'.running ]_vars

\* C28 witness: a change to RAW went through after one to MONO_16: three
\* option writes between the stop and the restart, the RGB mode left at 4.
C28_Witness ==
    /\ last = Did("SetVideoFormat", "ok", <<"Stop", "raw", "bitdepth", "pixfmt", "Start">>)
    /\ currentVideoFormat = "RAW"
    /\ hw.rgb = 4
    /\ hw.running

\* C29: after a successful format change to a target, the channel count is 3
\* exactly when the target is RGB and 1 otherwise; the bits per pixel are 8 for
\* MONO_8 and RGB, 16 for MONO_16 and the raw bit depth for RAW; the Bayer
\* capability and the Bayer pixel format are set exactly when the target is
\* RAW; and when capture is restarted, last, the frame buffer has the size of
\* the new format at the current resolution.
C29_DescriptorMatchesTarget ==
    [][ \A target \in VideoFormats :
          (~streaming /\ Selectable(target) /\ SetVideoFormat(target, 0))
             => /\ last'.rc = "ok"
                /\ currentVideoFormat' = target
                /\ m_Channels' = 3 <=> target = "RGB"
                /\ m_Channels' = 1 <=> target # "RGB"
                /\ m_BitsPerPixel' = CASE target \in {"MONO_8", "RGB"} -> 8
                                       [] target = "MONO_16" -> 16
                                       [] target = "RAW" -> camera.rawDepth
                /\ bayerCap' <=> target = "RAW"
                /\ streamer'.fmt = BayerFormat <=> target = "RAW"
                /\ ccd'.NAxis = IF target = "RGB" THEN 3 ELSE 2
                /\ ccd'.FrameBufferSize
                      = (ccd.XRes * ccd.YRes * m_Channels' * m_BitsPerPixel') \div 8
                /\ last'.hw[Len(last'.hw)] = "Start"
                /\ hw'.running ]_vars

\* C29 witness: a change from MONO_16 to RAW on the 12-bit colour camera.
C29_Witness ==
    /\ last.op = "SetVideoFormat"
    /\ last.rc = "ok"
    /\ currentVideoFormat = "RAW"
    /\ m_Channels = 1
    /\ m_BitsPerPixel = 12
    /\ bayerCap
    /\ hw.rgb = 4
    /\ ccd.FrameBufferSize = (ccd.XRes * ccd.YRes * 12) \div 8
    /\ ccd.XRes = 52

\* C30: after a successful format change the raw-vs-RGB option written to the
\* hardware is raw (1) exactly when the target is RAW, and RGB (0) for MONO_8,
\* MONO_16 and RGB.
C30_RawOptionFollowsTarget ==
    [][ \A target \in VideoFormats :
          (~streaming /\ Selectable(target) /\ SetVideoFormat(target, 0))
             => hw'.raw = IF target = "RAW" THEN 1 ELSE 0 ]_vars

\* C31: while not streaming, an image event handled while send-pending is
\* false has no side effect: no failed status is raised, nothing is published,
\* and InExposure and send-pending are unchanged.
C31_ExtraEventHasNoEffect ==
    [][ \A pullOk \in BOOLEAN :
          (~m_SendImage /\ ~streaming /\ EventImagePull(pullOk))
             => UNCHANGED <<failures, published, InExposure, m_SendImage>> ]_vars

\* C33: when ExposureComplete is invoked for an exposure, send-pending has
\* already been cleared and InExposure is already false.  ExposureComplete is
\* invoked in the state a publishing step starts in; the handler's own
\* assignments follow the call.
C33_IdleBeforePublish ==
    [][ published' = published + 1 => (~m_SendImage /\ ~InExposure) ]_vars

\* C32: a still-image event that arrives while no exposure is in progress and
\* send-pending is false is discarded: nothing is published and no failed
\* status is raised.
C32_StrayStillImageDiscarded ==
    [][ \A pullOk \in BOOLEAN :
          (~InExposure /\ ~m_SendImage /\ eventPullCallBack("STILLIMAGE", pullOk))
             => UNCHANGED <<published, failures>> ]_vars

\* C34: an event other than IMAGE and STILLIMAGE leaves the exposure state,
\* send-pending, the format, the geometry, the buffers and both guide axes
\* unchanged, and publishes nothing.
C34_OtherEventsChangeNothing ==
    [][ \A event \in HardwareEvents \ {"IMAGE", "STILLIMAGE"}, pullOk \in BOOLEAN :
          eventPullCallBack(event, pullOk)
             => /\ UNCHANGED <<captureVars, formatVars, guideVars>>
                /\ last' = Did("eventPullCallBack", "break", <<event>>) ]_vars

\* C34 witness: an ERROR event was handled while an image was waiting to be
\* sent, its event was queued and a guide pulse was active.
C34_Witness ==
    /\ last = Did("eventPullCallBack", "break", <<"ERROR">>)
    /\ m_SendImage
    /\ hwReady = 1
    /\ published = 0
    /\ ~failures
    /\ NStimerID # -1

\* C35: the poll timer and the wake-up timers never end an exposure in
\* progress, nor set send-pending for it, before the exposure's deadline
\* (start time plus requested duration) has been reached.
C35_NotBeforeDeadline ==
    [][ /\ \A t \in BagToSet(sendTimers) :
              (InExposure /\ sendImageCallBack(t)) => now >= ExposureEnd
        /\ (InExposure /\ TimerHit /\ last'.rc = "set") => now >= ExposureEnd ]_vars

\* C36: Disconnect leaves both guide axes idle with no timer armed, having
\* signalled the completion of every active pulse once and of no other, and
\* no guide timer callback runs once the camera is disconnected.
C36_DisconnectStopsGuiding ==
    [][ /\ Disconnect
           => /\ NStimerID' = -1
              /\ WEtimerID' = -1
              /\ guideTimers' = {}
              /\ guideDone'.NS = Cardinality(TimersOf("NS", guideTimers))
              /\ guideDone'.WE = Cardinality(TimersOf("WE", guideTimers))
        /\ ~hw.running => last'.op \notin {"TimerNS", "TimerWE"} ]_vars

\* C36 witness: the camera was disconnected while a pulse was active on each
\* axis, and time has passed beyond the end of both pulses.
C36_Witness ==
    /\ ~hw.running
    /\ guideDone = [NS |-> 1, WE |-> 1]
    /\ guideTimers = {}
    /\ NStimerID = -1
    /\ WEtimerID = -1
    /\ now > NSPulseEnd
    /\ now > WEPulseEnd
    /\ NSPulseEnd > 0
    /\ WEPulseEnd > 0

\* The position a relative move aims at, before any conversion.
RelTarget(dir, ticks) ==
    IF dir = "FOCUS_INWARD" THEN FocusAbsPosNP.value - ticks
                            ELSE FocusAbsPosNP.value + ticks
OutOfRange(position) == position < FocusAbsPosMin \/ position > FocusAbsPosMax
\* The last operation wrote a move command that reached the serial port.
MoveWritten(op) ==
    \E i \in 1 .. Len(op.hw) : op.hw[i].cmd = "UPDATE_POSITION" /\ op.hw[i].ok

\* C37: the Microtouch never sends a move command for a position outside the
\* limits of the absolute position; MoveAbsFocuser and MoveRelFocuser (an inward
\* relative move larger than the current position included) return IPS_ALERT
\* without writing to the device and without setting a position property BUSY
\* when the target is out of range, and return IPS_BUSY only after the command
\* was written.
C37_OutOfRangeMoveRefused ==
    [][ /\ \A targetTicks \in AbsTargets, writeOk \in BOOLEAN :
              (OutOfRange(targetTicks) /\ MoveAbsFocuser(targetTicks, writeOk))
                 => /\ last'.rc = "IPS_ALERT" /\ last'.hw = << >>
                    /\ FocusAbsPosNP'.state = FocusAbsPosNP.state
        /\ \A dir \in FocusDirs, ticks \in RelTicks, writeOk \in BOOLEAN :
              (OutOfRange(RelTarget(dir, ticks)) /\ MoveRelFocuser(dir, ticks, writeOk))
                 => /\ last'.rc = "IPS_ALERT" /\ last'.hw = << >>
                    /\ FocusRelPosNP'.state = FocusRelPosNP.state
        /\ (last'.op \in {"MoveAbsFocuser", "MoveRelFocuser"} /\ last'.rc = "IPS_BUSY")
              => MoveWritten(last')
        /\ last'.op \in {"MoveAbsFocuser", "MoveRelFocuser"}
              => \A i \in 1 .. Len(last'.hw) :
                    ~OutOfRange(DigitsAsInt(last'.hw[i].arg)) ]_vars

\* The last operation asked the device whether it moves and was told no.
SawNotMoving(op) ==
    \E i \in 1 .. Len(op.hw) : op.hw[i].cmd = "IS_MOVING" /\ ~isMoving(op.hw[i].arg)
\* The last operation ran AbortFocuser: it wrote the halt command.
HaltWritten(op) ==
    \E i \in 1 .. Len(op.hw) : op.hw[i].cmd = "HALT"
BothStates(st) == FocusAbsPosNP'.state = st /\ FocusRelPosNP'.state = st

\* C38: a Microtouch position property that is BUSY leaves BUSY only by the poll
\* TimerHit finding the device not moving (absolute and relative both become OK)
\* or by AbortFocuser (both become IDLE); and under repeated polling a relative
\* position property that a move set BUSY eventually leaves BUSY.
C38_BusyEndsByPollOrAbort ==
    /\ [][ ( \/ (FocusAbsPosNP.state = "IPS_BUSY" /\ FocusAbsPosNP'.state # "IPS_BUSY")
             \/ (FocusRelPosNP.state = "IPS_BUSY" /\ FocusRelPosNP'.state # "IPS_BUSY") )
           => \/ /\ last'.op = "Microtouch::TimerHit"
                 /\ SawNotMoving(last')
                 /\ BothStates("IPS_OK")
              \/ /\ HaltWritten(last')
                 /\ BothStates("IPS_IDLE") ]_vars
    /\ (FocusRelPosNP.state = "IPS_BUSY") ~> (FocusRelPosNP.state # "IPS_BUSY")

\* A poll that found the device stopped has settled a relative move.
C38_Witness ==
    /\ last.op = "Microtouch::TimerHit"
    /\ last.rc = "settled"
    /\ FocusRelPosNP = [state |-> "IPS_OK", value |-> 1000]
    /\ motor.pos = 1000

\* C39: a timed Microtouch move always ends with a halt command: a duration of
\* at most the polling period is slept through, halted and answered IPS_OK; a
\* longer one is answered IPS_BUSY, and the poll TimerHit halts the motor once
\* the time since the start has reached the duration asked for.
C39_TimedMoveHalted ==
    [][ /\ \A dir \in FocusDirs, speed \in FocusSpeeds, duration \in TimedDurations :
              MoveFocuserTimed(dir, speed, duration, TRUE)
                 => IF duration <= PollingPeriod
                    THEN /\ last'.rc = "IPS_OK"
                         /\ HaltWritten(last')
                         /\ now' = now + duration
                    ELSE /\ last'.rc = "IPS_BUSY"
                         /\ FocusTimerNP'.state = "IPS_BUSY"
        /\ ( /\ last'.op = "Microtouch::TimerHit"
             /\ FocusTimerNP.state = "IPS_BUSY"
             /\ now - focusMoveStart >= FocusTimerNP.asked )
              => HaltWritten(last') ]_vars

\* C40: StarGoFocuser::SetFocuserSpeed reads its 10-row speed table only inside
\* the table for every speed the speed property allows (0 to 10), and returns
\* true exactly when the speed command was sent and acknowledged.
C40_SpeedTableInBoundsAndAcked ==
    [][ \A speed \in FocusSpeedMin .. FocusSpeedMax, acked \in BOOLEAN :
            SetFocuserSpeed(speed, acked)
               => /\ last'.hw[1] \in 0 .. Len(SpeedParam) - 1
                  /\ last'.rc = acked ]_vars

====
